---------------------------- MODULE Spec2Model ----------------------------
(***************************************************************************)
(* EzSplit backend: the balance ledger (getSummary), the greedy settlement *)
(* planner (calculateTransactions), the payment-status store               *)
(* (updatePaymentStatus) and the per-expense views, modelled from          *)
(* src/unnamed/part_001 (the summary controller),                          *)
(* src/controllers/expenseController.js, src/controllers/userController.js *)
(* and the schema of src/database/setup.sql.                               *)
(*                                                                         *)
(* Money.  The store keeps amounts as DECIMAL(10,2): an amount is a whole  *)
(* number of hundredths ("cents" below).  The controllers turn them into   *)
(* JavaScript numbers (IEEE-754 doubles) with parseFloat, add and subtract *)
(* them as doubles, and go back to hundredths with toFixed(2).  The model  *)
(* keeps that arithmetic: a double is a sign and a magnitude counted in    *)
(* units of 2^-59, held in three limbs of 30 bits, and every sum is        *)
(* rounded to 53 significant bits, ties to even.  Every double the         *)
(* controllers compute from amounts is such a multiple (the operands are   *)
(* zero or at least 0.01 > 2^-7, whose unit in the last place is 2^-59 or  *)
(* more).  A number of cents is a TLC integer, so amounts and their sums   *)
(* stay below 2^31 cents (21474836.47); the column admits 99999999.99.     *)
(***************************************************************************)
EXTENDS Integers, Sequences, FiniteSets, TLC

VARIABLES
    db,              \* the store: the tables of setup.sql and their SERIAL counters
    clock,           \* the time new Date() and the store's CURRENT_TIMESTAMP read, in hours
    upd,             \* per client: the request it has in flight, where its handler
                     \* is to be resumed and what the handler holds in its locals
    resp,            \* the response of the last request answered
    log,             \* the requests that have arrived (their number, or what each
                     \* specification records of them)
    cdUsers,         \* calculateTransactions: the users argument (id, balance in cents)
    debtors,         \* calculateTransactions: the debtors array (id, balance as a double)
    creditors,       \* calculateTransactions: the creditors array
    transactions,    \* calculateTransactions: the transactions array built so far
    iterations,      \* number of passes through the body of the while loop
    cdPc             \* "start" before the call, "loop" inside the while, "done" after return

settleVars == <<cdUsers, debtors, creditors, transactions, iterations, cdPc>>
storeVars == <<db, clock, upd, resp, log>>
vars == <<db, clock, upd, resp, log, cdUsers, debtors, creditors, transactions, iterations, cdPc>>

----------------------------------------------------------------------------
(* Bounds of the model.                                                    *)

\* calculateTransactions is explored on every list of at most MaxSettleUsers users ...
MaxSettleUsers == 4
\* ... whose balances lie between -MaxBalance and +MaxBalance cents.
MaxBalance == 3
\* getSummary is explored on every ledger with at most MaxLedgerRows participant rows.
MaxLedgerRows == 2
\* The counting of getExpensesWithStatus is explored until the clock, which
\* advances with every payment status write, reads MaxClock.
MaxClock == 2
\* The clients of SpecSeq and SpecRace send MaxCalls status requests in all.
MaxCalls == 3
\* The clients of Spec and SpecFault send MaxRequests requests in all.
MaxRequests == 3

----------------------------------------------------------------------------
(* IEEE-754 double arithmetic on amounts.                                  *)

Base == 2^30

\* A magnitude is top * 2^60 + hi * 2^30 + lo in units of 2^-59, written
\* <<top, hi, lo>> with hi and lo below 2^30.

\* The number of bits of n, 0 <= n < 2^30.
BitLen(n) == CHOOSE b \in 0..30 : n < 2^b /\ (b = 0 \/ n >= 2^(b - 1))

\* How many bits a magnitude has beyond 53.
ExcessBits(top, hi) ==
    IF top > 0 THEN 7 + BitLen(top)
    ELSE IF hi < 2^23 THEN 0
    ELSE BitLen(hi) - 23

\* Bring hi and lo back below 2^30.
Carry(top, hi, lo) ==
    LET hi2 == hi + lo \div Base
    IN  <<top + hi2 \div Base, hi2 % Base, lo % Base>>

\* Round a magnitude to 53 significant bits by dropping its s lowest bits, ties to
\* even; sticky tells that the exact value lies strictly above the magnitude given
\* (bits beyond the unit).
RoundAt(m, s, sticky) ==
    IF s = 0 THEN m
    ELSE IF s <= 30
    THEN LET p    == 2^s
             r    == m[3] % p
             down == m[3] - r
             odd  == IF s = 30 THEN m[2] % 2 = 1 ELSE (down \div p) % 2 = 1
             up   == \/ 2 * r > p
                     \/ 2 * r = p /\ (sticky \/ odd)
         IN  Carry(m[1], m[2], IF up THEN down + p ELSE down)
    ELSE LET p    == 2^(s - 30)
             r    == m[2] % p
             down == m[2] - r
             half == p \div 2
             up   == \/ r > half
                     \/ r = half /\ (m[3] > 0 \/ sticky \/ (down \div p) % 2 = 1)
         IN  Carry(m[1], IF up THEN down + p ELSE down, 0)

\* The magnitude and the number of bits to drop are computed once each.
RoundSticky(m, sticky) ==
    CHOOSE r \in { RoundAt(v[1], v[2], sticky) :
                      v \in { <<w, ExcessBits(w[1], w[2])>> : w \in {m} } } : TRUE

Round53(m) == RoundSticky(m, FALSE)

MkDouble(neg, m) ==
    CHOOSE x \in { [neg |-> neg, top |-> v[1], hi |-> v[2], lo |-> v[3]] : v \in {m} } : TRUE
Zero == [neg |-> FALSE, top |-> 0, hi |-> 0, lo |-> 0]

IsZero(x) == x.top = 0 /\ x.hi = 0 /\ x.lo = 0
MagLess(x, y) ==
    \/ x.top < y.top
    \/ x.top = y.top /\ x.hi < y.hi
    \/ x.top = y.top /\ x.hi = y.hi /\ x.lo < y.lo
MagEq(x, y) == x.top = y.top /\ x.hi = y.hi /\ x.lo = y.lo

MagAdd(x, y) == Carry(x.top + y.top, x.hi + y.hi, x.lo + y.lo)

\* x - y for magnitudes with y <= x.
MagSub(x, y) ==
    LET lo     == x.lo - y.lo
        borrow == IF lo < 0 THEN 1 ELSE 0
        hi     == x.hi - y.hi - borrow
        above  == IF hi < 0 THEN 1 ELSE 0
    IN  <<x.top - y.top - above, hi + above * Base, lo + borrow * Base>>

\* The JavaScript operators on numbers: a + b, -a, a - b, a < b, Math.abs, Math.min.
AddDoubles(x, y) ==
    IF x.neg = y.neg
    THEN MkDouble(x.neg, Round53(MagAdd(x, y)))
    ELSE IF MagEq(x, y) THEN Zero
    ELSE IF MagLess(x, y)
         THEN MkDouble(y.neg, Round53(MagSub(y, x)))
         ELSE MkDouble(x.neg, Round53(MagSub(x, y)))

\* a + b; each operand is computed once.
FAdd(x, y) == CHOOSE sum \in { AddDoubles(a, b) : a \in {x}, b \in {y} } : TRUE

FNeg(x) == [x EXCEPT !.neg = ~x.neg]
FSub(x, y) == FAdd(x, FNeg(y))
FAbs(x) == [x EXCEPT !.neg = FALSE]

FLess(x, y) ==
    IF IsZero(x) /\ IsZero(y) THEN FALSE
    ELSE IF x.neg /\ ~y.neg THEN TRUE
    ELSE IF ~x.neg /\ y.neg THEN FALSE
    ELSE IF x.neg THEN MagLess(y, x) ELSE MagLess(x, y)

FMin(x, y) == IF FLess(y, x) THEN y ELSE x

\* floor(n * 2^bits / den) by long division, 15 bits at a time, as
\* <<hi, lo, remainder>>; hi, lo is floor(n / den) and r is n % den at the start.
RECURSIVE LongDiv(_, _, _, _, _)
LongDiv(hi, lo, r, den, bits) ==
    IF bits = 0 THEN <<hi, lo, r>>
    ELSE LET c    == IF bits > 15 THEN 15 ELSE bits
             p    == 2^c
             keep == 2^(30 - c)
         IN  LongDiv(hi * p + lo \div keep, (lo % keep) * p + (r * p) \div den,
                     (r * p) % den, den, bits - c)

\* Halve a magnitude whose lowest bit is 0.
MagHalf(m) ==
    <<m[1] \div 2, (m[1] % 2) * (Base \div 2) + m[2] \div 2,
      (m[2] % 2) * (Base \div 2) + m[3] \div 2>>

\* The hundredths below one whole are 0 .. CentLimit.
CentLimit == 100 - 1

\* parseFloat of the decimal text of c hundredths (c >= 0): the double nearest c/100.
\* The quotient is taken with one more bit than the unit 2^-59 so that the rounding
\* position is always inside it.
NearestDouble(c) ==
    CHOOSE m \in { MagHalf(r) :
                      r \in { RoundSticky(<<c \div 100, q[1], q[2]>>, q[3] > 0) :
                                 q \in {LongDiv(0, 0, c % 100, 100, 60)} } } : TRUE

\* The doubles of 0.00 .. CentLimit/100, computed once (entry c + 1 is for c cents).
RECURSIVE NearestDoubles(_, _)
NearestDoubles(from, to) ==
    IF from = to THEN <<NearestDouble(from)>>
    ELSE NearestDoubles(from, (from + to) \div 2) \o NearestDoubles((from + to) \div 2 + 1, to)

NearestDoubleTab == NearestDoubles(0, CentLimit)

\* The double nearest c/100 (c >= 0), from the table where it holds c.
NearestTo(c) == IF c <= CentLimit THEN NearestDoubleTab[c + 1] ELSE NearestDouble(c)

\* parseFloat(text) for the text of a signed number of cents.
ParseFloat(c) ==
    IF c < 0 THEN MkDouble(TRUE, NearestTo(-c))
    ELSE MkDouble(FALSE, NearestTo(c))

\* The smallest magnitude whose value is at least (2c+1)/200, as <<hi, lo>>: from
\* there on the hundredths of toFixed(2) are c+1 or more (of two equally near, the
\* larger).
HalfwayAbove(c) ==
    LET q == LongDiv(0, (2 * c + 1) \div 25, (2 * c + 1) % 25, 25, 56)
    IN  IF q[3] > 0
        THEN (IF q[2] + 1 >= Base THEN <<q[1] + 1, 0>> ELSE <<q[1], q[2] + 1>>)
        ELSE <<q[1], q[2]>>

RECURSIVE HalfwayPoints(_, _)
HalfwayPoints(from, to) ==
    IF from = to THEN <<HalfwayAbove(from)>>
    ELSE HalfwayPoints(from, (from + to) \div 2) \o HalfwayPoints((from + to) \div 2 + 1, to)

HalfwayTab == HalfwayPoints(0, CentLimit)

\* The whole part of a magnitude and what is left of it, as <<hi, lo>>.
Whole(x) == 2 * x.top + x.hi \div (Base \div 2)
Fraction(x) == <<x.hi % (Base \div 2), x.lo>>

MagBelow(f, m) == f[1] < m[1] \/ (f[1] = m[1] /\ f[2] < m[2])

\* The hundredths that the fraction f rounds to, searched from c upwards.
RECURSIVE ToFixedFrom(_, _)
ToFixedFrom(f, c) ==
    IF c > CentLimit \/ MagBelow(f, HalfwayTab[c + 1]) THEN c ELSE ToFixedFrom(f, c + 1)

\* x.toFixed(2) read as a number of cents, and whether the text starts with "-"
\* (x < 0, so -0 prints "0.00" and -0.001 prints "-0.00").
ToFixed2(x) ==
    CHOOSE text \in
        { [minus |-> FLess(v, Zero),
           cents |-> 100 * Whole(v) + CHOOSE c \in { ToFixedFrom(f, 0) : f \in {Fraction(v)} } : TRUE] :
             v \in {x} } : TRUE

\* parseFloat(x.toFixed(2)) as a double, and the same as a signed number of cents.
RoundTrip(x) ==
    CHOOSE y \in { MkDouble(text.minus, NearestTo(text.cents)) : text \in {ToFixed2(x)} } : TRUE
RoundCents(x) ==
    CHOOSE c \in { IF text.minus THEN -text.cents ELSE text.cents : text \in {ToFixed2(x)} } : TRUE

\* 0.01, the literal of the removal test of calculateTransactions.
Tolerance == ParseFloat(1)

----------------------------------------------------------------------------
(* calculateTransactions (src/unnamed/part_001, lines 178-253).            *)
(* A user object is [id, balance]; the display fields copied from the user *)
(* (names, bank fields) take no part in the computation and are left out.  *)

\* (a, b) => a.balance - b.balance is negative: most negative first.
DebtorBeforeLeastNegativeFirst(a, b) == FLess(FSub(b.balance, a.balance), Zero)
DebtorBefore(a, b) == FLess(FSub(a.balance, b.balance), Zero)
\* (a, b) => b.balance - a.balance is negative: most positive first.
CreditorBefore(a, b) == FLess(FSub(b.balance, a.balance), Zero)

\* Array.prototype.sort with one of the two comparators (the sort is stable): x
\* goes before the first element the comparator puts it strictly in front of.
RECURSIVE InsertBefore(_, _, _)
InsertBefore(s, x, descending) ==
    IF s = <<>> THEN <<x>>
    ELSE IF (IF descending THEN CreditorBefore(x, Head(s)) ELSE DebtorBefore(x, Head(s)))
         THEN <<x>> \o s
         ELSE <<Head(s)>> \o InsertBefore(Tail(s), x, descending)

RECURSIVE SortBy(_, _)
SortBy(s, descending) ==
    IF s = <<>> THEN <<>>
    ELSE InsertBefore(SortBy(SubSeq(s, 1, Len(s) - 1), descending), s[Len(s)], descending)

IsDebtorNonZero(user) == ~IsZero(user.balance)
IsDebtor(user) == FLess(user.balance, Zero)
IsCreditor(user) == FLess(Zero, user.balance)

\* Lines 188-195: the two sorted arrays and the empty transaction list.
\* users is a sequence of [id, balance] with balance a double.
SettleStart(users) ==
    [debtors      |-> SortBy(SelectSeq(users, IsDebtor), FALSE),
     creditors    |-> SortBy(SelectSeq(users, IsCreditor), TRUE),
     transactions |-> <<>>]

\* Line 207: Math.min(debtAmount, creditAmount).
TransactionAmount(debtAmount, creditAmount) == FMin(debtAmount, creditAmount)

\* Lines 243 and 247: Math.abs(balance) < 0.01.
SettledBelowZero(balance) == FLess(FAbs(balance), Zero)
Settled(balance) == FLess(FAbs(balance), Tolerance)

\* Lines 212-222: names of the expenses the debtor takes part in and the creditor
\* paid.  userExpensesMap maps a user id to the sequence of its expense ids,
\* expenseMap an expense id to its record.
RelatedExpenses(debtorId, creditorId, userExpensesMap, expenseMap) ==
    LET debtorExpenses ==
            IF debtorId \in DOMAIN userExpensesMap THEN userExpensesMap[debtorId] ELSE <<>>
        PaidByCreditor(expenseId) ==
            expenseId \in DOMAIN expenseMap /\ expenseMap[expenseId].payer_id = creditorId
        creditorExpenses == SelectSeq(debtorExpenses, PaidByCreditor)
        names == [i \in 1..Len(creditorExpenses) |-> expenseMap[creditorExpenses[i]].name]
        Truthy(name) == name # ""
    IN  SelectSeq(names, Truthy)

\* Lines 199-249: one pass through the body of the while loop.
LoopBody(st, userExpensesMap, expenseMap) ==
    LET debtor   == st.debtors[1]
        creditor == st.creditors[1]
        debtAmount   == FAbs(debtor.balance)
        creditAmount == creditor.balance
        transactionAmount == TransactionAmount(debtAmount, creditAmount)
        pushed ==
            IF FLess(Zero, transactionAmount)
            THEN Append(st.transactions,
                        [from   |-> debtor.id,
                         to     |-> creditor.id,
                         amount |-> RoundCents(transactionAmount),
                         relatedExpenses |->
                             RelatedExpenses(debtor.id, creditor.id,
                                             userExpensesMap, expenseMap)])
            ELSE st.transactions
        debtorBalance   == FAdd(debtor.balance, transactionAmount)
        creditorBalance == FSub(creditor.balance, transactionAmount)
    IN  [debtors      |-> IF Settled(debtorBalance) THEN Tail(st.debtors)
                          ELSE [st.debtors EXCEPT ![1].balance = debtorBalance],
         creditors    |-> IF Settled(creditorBalance) THEN Tail(st.creditors)
                          ELSE [st.creditors EXCEPT ![1].balance = creditorBalance],
         transactions |-> pushed]

\* Line 198: the condition of the while loop.
LoopRuns(st) == Len(st.debtors) > 0 /\ Len(st.creditors) > 0

\* The whole function: the transactions it returns.
RECURSIVE RunLoop(_, _, _)
RunLoop(st, userExpensesMap, expenseMap) ==
    IF LoopRuns(st) THEN RunLoop(LoopBody(st, userExpensesMap, expenseMap),
                                 userExpensesMap, expenseMap)
    ELSE st.transactions

CalculateTransactions(users, userExpensesMap, expenseMap) ==
    RunLoop(SettleStart(users), userExpensesMap, expenseMap)

\* The users array as the caller builds it: balance is parseFloat of a toFixed(2) text.
AsUserObjects(list) == [i \in 1..Len(list) |-> [id |-> list[i].id, balance |-> ParseFloat(list[i].balance)]]

----------------------------------------------------------------------------
(* The store (src/database/setup.sql).                                     *)
(*   users                      id -> [name]                               *)
(*   expenses                   rows [id, name, amount, payer_id]          *)
(*   participants               rows [expense_id, user_id, amount]         *)
(*   transaction_payment_status rows [transaction_id, paid, paid_at,       *)
(*                                    created_at, updated_at]              *)
(* Rows are kept in insertion order.  Amounts are cents.  A row id that    *)
(* nothing reads (participants.id, transaction_payment_status.id) and the  *)
(* bank columns of users are left out; created_at of an expense, read only *)
(* to order the listings, grows with the expense id.                       *)

\* SQL NULL in an INTEGER column (ids start at 1).
NullId == 0
\* SQL NULL in a TIMESTAMP column (times start at 0).
NullTime == -1
\* JavaScript's undefined for a text field of a request.
Absent == "absent"
\* !text for a text field: true for undefined and for the empty string.
NoText(text) == text = Absent \/ text = ""

EmptyDb ==
    [users |-> <<>>, expenses |-> <<>>, participants |-> <<>>, statuses |-> <<>>,
     nextUserId |-> 1, nextExpenseId |-> 1]

\* The users setup.sql inserts (lines 50-58), their names in ASCII.
SeedNames ==
    <<"Tien Le", "Tra Nguyen", "Tuan Hoang", "Yen Nguyen", "Karin", "Duy Tran", "Minh Le">>

\* The store after setup.sql has run.
SeededDb ==
    [users |-> [id \in 1..Len(SeedNames) |-> [name |-> SeedNames[id]]],
     expenses |-> <<>>, participants |-> <<>>, statuses |-> <<>>,
     nextUserId |-> Len(SeedNames) + 1, nextExpenseId |-> 1]

NoResp == [op |-> "none", status |-> 0]

\* The local variables of a handler that serves no request.
Idle == [pc |-> "idle"]

UserIdsOf(d) == DOMAIN d.users
ExpenseIdsOf(d) == { d.expenses[i].id : i \in 1..Len(d.expenses) }

\* The ids of a set in ascending order (.order('id'), Object.values of integer keys).
RECURSIVE Ascending(_)
Ascending(S) ==
    IF S = {} THEN <<>>
    ELSE LET m == CHOOSE x \in S : \A y \in S : x <= y
         IN  <<m>> \o Ascending(S \ {m})

\* .order('created_at', { ascending: false }).
RECURSIVE Reverse(_)
Reverse(s) == IF s = <<>> THEN <<>> ELSE Append(Reverse(Tail(s)), Head(s))

NewestFirst(expenses) ==
    LET ExpenseWithId(id) == CHOOSE e \in { expenses[i] : i \in 1..Len(expenses) } : e.id = id
        ids == Ascending({ expenses[i].id : i \in 1..Len(expenses) })
    IN  Reverse([i \in 1..Len(ids) |-> ExpenseWithId(ids[i])])

ParticipantsOf(d, expenseId) ==
    LET OfExpense(p) == p.expense_id = expenseId IN SelectSeq(d.participants, OfExpense)

----------------------------------------------------------------------------
(* Transaction identifiers (template literals of part_001, lines 110, 153, *)
(* 331, 523, 624 and expenseController.js, line 117).                      *)

\* `${id}` of an id column: the decimal digits, or "null".
IdText(id) == IF id = NullId THEN "null" ELSE ToString(id)

ExpenseTransactionId(expenseId, fromUserId, toUserId) ==
    IdText(expenseId) \o "-" \o IdText(fromUserId) \o "-" \o IdText(toUserId)

OverallTransactionIdInExpenseNamespace(fromId, toId) ==
    ExpenseTransactionId(1, fromId, toId)
OverallTransactionId(fromId, toId) ==
    "overall-" \o IdText(fromId) \o "-" \o IdText(toId)

----------------------------------------------------------------------------
(* Payment status rows.                                                    *)

StatusRows(statuses, transactionId) ==
    LET Matches(row) == row.transaction_id = transactionId IN SelectSeq(statuses, Matches)

\* .eq('transaction_id', id).maybeSingle(): the row, null for none, an error for several.
MaybeSingle(rows) ==
    IF Len(rows) = 0 THEN [error |-> FALSE, found |-> FALSE]
    ELSE IF Len(rows) = 1 THEN [error |-> FALSE, found |-> TRUE, row |-> rows[1]]
    ELSE [error |-> TRUE, found |-> FALSE]

\* The status synthesized for an id with no stored row.
DefaultStatusPaid(transactionId) ==
    [transaction_id |-> transactionId, paid |-> TRUE, paid_at |-> NullTime]
DefaultStatus(transactionId) ==
    [transaction_id |-> transactionId, paid |-> FALSE, paid_at |-> NullTime]

\* paymentStatus || { transaction_id, paid: false, paid_at: null }, of what one
\* lookup answered.
FoundOrDefault(got, transactionId) ==
    IF got.found THEN got.row ELSE DefaultStatus(transactionId)
StatusOrDefault(statuses, transactionId) ==
    FoundOrDefault(MaybeSingle(StatusRows(statuses, transactionId)), transactionId)

\* Whether the lookup of one id throws (if (paymentError) throw paymentError).
LookupFails(statuses, transactionId) == MaybeSingle(StatusRows(statuses, transactionId)).error

\* paymentStatusMap of getSummary (lines 45-48): the last row of each id.
PaymentStatusMapOrDefault(statuses, transactionId) ==
    LET rows == StatusRows(statuses, transactionId)
    IN  IF Len(rows) = 0 THEN DefaultStatus(transactionId) ELSE rows[Len(rows)]

----------------------------------------------------------------------------
(* getSummary (src/unnamed/part_001, lines 4-175).                         *)

\* acc += parseFloat(amount) over the rows of a sequence, from 0.
RECURSIVE SumAmounts(_, _)
SumAmounts(acc, rows) ==
    IF rows = <<>> THEN acc
    ELSE SumAmounts(FAdd(acc, ParseFloat(Head(rows).amount)), Tail(rows))

\* Lines 79-84: paid of a known user.
PaidAddsShares(d, userId) ==
    LET Mine(p) == p.user_id = userId IN SumAmounts(Zero, SelectSeq(d.participants, Mine))
PaidOf(d, userId) ==
    LET PaidByUser(e) == e.payer_id = userId IN SumAmounts(Zero, SelectSeq(d.expenses, PaidByUser))

\* Lines 87-96: spent of a known user.
SpentOf(d, userId) ==
    LET Mine(p) == p.user_id = userId IN SumAmounts(Zero, SelectSeq(d.participants, Mine))

\* Line 137: user.balance = user.paid - user.spent.
BalanceAddsSpent(paid, spent) == FAdd(paid, spent)
BalanceOf(paid, spent) == FSub(paid, spent)

\* Lines 87-96: userExpensesMap, a Set of expense ids per known user.
RECURSIVE Distinct(_, _)
Distinct(seen, s) ==
    IF s = <<>> THEN <<>>
    ELSE IF Head(s) \in seen THEN Distinct(seen, Tail(s))
         ELSE <<Head(s)>> \o Distinct(seen \cup {Head(s)}, Tail(s))

UserExpensesMap(d) ==
    [u \in UserIdsOf(d) |->
        LET Mine(p) == p.user_id = u
            rows == SelectSeq(d.participants, Mine)
        IN  Distinct({}, [i \in 1..Len(rows) |-> rows[i].expense_id])]

\* Lines 67-70: expenseMap.
ExpenseMap(d) ==
    [id \in ExpenseIdsOf(d) |->
        CHOOSE e \in { d.expenses[i] : i \in 1..Len(d.expenses) } : e.id = id]

\* Lines 99-120: paymentTransactionsMap as the sequence of its entries in key
\* order; a second row with the same key overwrites the entry in place.
RECURSIVE PutTransaction(_, _)
PutTransaction(map, entry) ==
    IF map = <<>> THEN <<entry>>
    ELSE IF Head(map).key = entry.key THEN <<entry>> \o Tail(map)
         ELSE <<Head(map)>> \o PutTransaction(Tail(map), entry)

RECURSIVE PutParticipants(_, _, _, _)
PutParticipants(map, expense, rows, statuses) ==
    IF rows = <<>> THEN map
    ELSE IF Head(rows).user_id = expense.payer_id
         THEN PutParticipants(map, expense, Tail(rows), statuses)
         ELSE LET transactionId ==
                      ExpenseTransactionId(expense.id, Head(rows).user_id, expense.payer_id)
                  entry == [key    |-> transactionId,
                            from   |-> Head(rows).user_id,
                            to     |-> expense.payer_id,
                            amount |-> ParseFloat(Head(rows).amount),
                            paid   |-> PaymentStatusMapOrDefault(statuses, transactionId).paid]
              IN  PutParticipants(PutTransaction(map, entry), expense, Tail(rows), statuses)

RECURSIVE PaymentTransactionsFrom(_, _, _)
PaymentTransactionsFrom(map, d, expenses) ==
    IF expenses = <<>> THEN map
    ELSE PaymentTransactionsFrom(
             PutParticipants(map, Head(expenses), ParticipantsOf(d, Head(expenses).id),
                             d.statuses),
             d, Tail(expenses))

PaymentTransactionsMap(d) == PaymentTransactionsFrom(<<>>, d, d.expenses)

\* Lines 123-133: received (paid entries) and pending (the others) of a known user.
RECURSIVE SumDoubles(_, _)
SumDoubles(acc, entries) ==
    IF entries = <<>> THEN acc
    ELSE SumDoubles(FAdd(acc, Head(entries).amount), Tail(entries))

ReceivedOf(map, userId) ==
    LET Mine(t) == t.paid /\ t.to = userId IN SumDoubles(Zero, SelectSeq(map, Mine))

PendingOf(map, userId) ==
    LET Mine(t) == ~t.paid /\ t.to = userId IN SumDoubles(Zero, SelectSeq(map, Mine))

\* Lines 51-64 and 136-144: Object.values(userSummary), amounts as cents.
UserSummary(d) ==
    LET ids == Ascending(UserIdsOf(d))
        map == PaymentTransactionsMap(d)
    IN  [i \in 1..Len(ids) |->
            LET paid == PaidOf(d, ids[i])
                spent == SpentOf(d, ids[i])
            IN  [id       |-> ids[i],
                 name     |-> d.users[ids[i]].name,
                 paid     |-> RoundCents(paid),
                 spent    |-> RoundCents(spent),
                 balance  |-> RoundCents(BalanceOf(paid, spent)),
                 received |-> RoundCents(ReceivedOf(map, ids[i])),
                 pending  |-> RoundCents(PendingOf(map, ids[i]))]]

\* Lines 147-161: the settling transactions with their payment status.
OverallStatus(statuses, fromId, toId) ==
    PaymentStatusMapOrDefault(statuses, OverallTransactionId(fromId, toId))

WithOverallStatus(statuses, planned) ==
    [i \in 1..Len(planned) |->
        [from   |-> planned[i].from,
         to     |-> planned[i].to,
         amount |-> planned[i].amount,
         relatedExpenses |-> planned[i].relatedExpenses,
         payment_status  |-> OverallStatus(statuses, planned[i].from, planned[i].to)]]

GetSummary(d) ==
    LET userSummary == UserSummary(d)
        planned == CalculateTransactions(AsUserObjects(userSummary),
                                         UserExpensesMap(d), ExpenseMap(d))
    IN  [status |-> 200, userSummary |-> userSummary,
         transactions |-> WithOverallStatus(d.statuses, planned)]

----------------------------------------------------------------------------
(* The per-expense views.                                                  *)

HasExpense(d, expenseId) == expenseId \in ExpenseIdsOf(d)
ExpenseById(d, expenseId) ==
    CHOOSE e \in { d.expenses[i] : i \in 1..Len(d.expenses) } : e.id = expenseId

\* "For each participant who is not the payer, create a transaction"
\* (part_001, lines 315-324, 508-516, 605-614; expenseController.js, lines 102-110).
ExpenseTransactionsOfEveryRow(d, expense) ==
    LET rows == ParticipantsOf(d, expense.id)
    IN  [i \in 1..Len(rows) |->
            [expense_id   |-> expense.id,
             from_user_id |-> rows[i].user_id,
             to_user_id   |-> expense.payer_id,
             amount       |-> rows[i].amount]]
ExpenseTransactions(d, expense) ==
    LET NotPayer(p) == p.user_id # expense.payer_id
        rows == SelectSeq(ParticipantsOf(d, expense.id), NotPayer)
    IN  [i \in 1..Len(rows) |->
            [expense_id   |-> expense.id,
             from_user_id |-> rows[i].user_id,
             to_user_id   |-> expense.payer_id,
             amount       |-> rows[i].amount]]

TransactionIdOf(trans) ==
    ExpenseTransactionId(trans.expense_id, trans.from_user_id, trans.to_user_id)

\* userMap[id]?.name || 'Unknown': the name of a user that has one, "Unknown" for
\* an id that is no user's and for the empty name.
NameOrUnknown(d, userId) ==
    IF userId \in UserIdsOf(d) /\ d.users[userId].name # ""
    THEN d.users[userId].name
    ELSE "Unknown"

\* The lookups of the transactions of an expense, all made on one store: what
\* .eq('transaction_id', transactionId).maybeSingle() answers for each.
Lookups(d, expense) ==
    LET list == ExpenseTransactions(d, expense)
    IN  [i \in 1..Len(list) |-> MaybeSingle(StatusRows(d.statuses, TransactionIdOf(list[i])))]

\* part_001, lines 329-361 and 622-654: the transactions with their payment status,
\* from the users and participants read (seen) and what the lookups answered (got).
TransactionsFrom(seen, expense, got) ==
    LET list == ExpenseTransactions(seen, expense)
    IN  [i \in 1..Len(list) |->
            [id         |-> TransactionIdOf(list[i]),
             fromUserId |-> list[i].from_user_id,
             toUserId   |-> list[i].to_user_id,
             fromName   |-> NameOrUnknown(seen, list[i].from_user_id),
             toName     |-> NameOrUnknown(seen, list[i].to_user_id),
             amount     |-> list[i].amount,
             payment_status |-> FoundOrDefault(got[i], TransactionIdOf(list[i]))]]
TransactionsWithStatus(d, expense) == TransactionsFrom(d, expense, Lookups(d, expense))

AnyLookupFails(d, expense) ==
    LET list == ExpenseTransactions(d, expense)
    IN  \E i \in 1..Len(list) : LookupFails(d.statuses, TransactionIdOf(list[i]))

\* part_001, lines 364-365 and 657-658.
AllCompleted(withStatus) ==
    Len(withStatus) > 0 /\ \A i \in 1..Len(withStatus) : withStatus[i].payment_status.paid

\* Line 291: expense.payer.id throws when the expense has no payer (the joined
\* payer is null), and the catch of line 376 answers 500.
PayerMissing(expense) == expense.payer_id = NullId

\* Lines 363-375: the answer of getExpenseSummary.
ExpenseSummaryAnswer(seen, expense, got) ==
    [status       |-> 200,
     expense      |-> expense,
     participants |-> ParticipantsOf(seen, expense.id),
     transactions |-> TransactionsFrom(seen, expense, got),
     allCompleted |-> AllCompleted(TransactionsFrom(seen, expense, got))]

\* getExpenseSummary (part_001, lines 256-383), served alone on the store d.
GetExpenseSummary(d, expenseId) ==
    IF ~HasExpense(d, expenseId) THEN [status |-> 404]
    ELSE IF PayerMissing(ExpenseById(d, expenseId)) THEN [status |-> 500]
    ELSE IF AnyLookupFails(d, ExpenseById(d, expenseId)) THEN [status |-> 500]
    ELSE ExpenseSummaryAnswer(d, ExpenseById(d, expenseId),
                              Lookups(d, ExpenseById(d, expenseId)))

\* Line 534: if (paymentStatus && paymentStatus.paid) completedCount++, of what one
\* lookup answered.
CompletesWhenFound(got) == got.found
Completes(got) == got.found /\ got.row.paid

\* part_001, lines 519-537: completedCount.
CompletedCount(d, expense) ==
    LET list == ExpenseTransactions(d, expense)
        Completed(trans) ==
            Completes(MaybeSingle(StatusRows(d.statuses, TransactionIdOf(trans))))
    IN  Len(SelectSeq(list, Completed))

\* Lines 539-546: the entry pushed for an expense; userMap is the users read.
StatusEntry(expense, userMap, participants, paymentCount, completedCount) ==
    [id                     |-> expense.id,
     payer_name             |-> NameOrUnknown([users |-> userMap], expense.payer_id),
     payment_count          |-> paymentCount,
     completed_count        |-> completedCount,
     all_payments_completed |-> paymentCount > 0 /\ completedCount = paymentCount,
     participants_count     |-> Len(participants)]

\* getExpensesWithStatus (part_001, lines 461-557), served alone on the store d.
GetExpensesWithStatus(d) ==
    LET expenses == NewestFirst(d.expenses)
    IN  IF \E i \in 1..Len(expenses) : AnyLookupFails(d, expenses[i]) THEN [status |-> 500]
        ELSE [status |-> 200,
              body   |-> [i \in 1..Len(expenses) |->
                  StatusEntry(expenses[i], d.users, ParticipantsOf(d, expenses[i].id),
                              Len(ExpenseTransactions(d, expenses[i])),
                              CompletedCount(d, expenses[i]))]]

\* Lines 661-668: the entry pushed for an expense that has transactions.
TransactionsEntry(expense, withStatus) ==
    [expenseId    |-> expense.id,
     amount       |-> expense.amount,
     transactions |-> withStatus,
     allCompleted |-> AllCompleted(withStatus)]

\* getExpensesTransactions (part_001, lines 560-679), served alone on the store d;
\* expenses with no transaction are skipped (line 617).
GetExpensesTransactions(d) ==
    LET HasTransactions(expense) == Len(ExpenseTransactions(d, expense)) > 0
        expenses == SelectSeq(NewestFirst(d.expenses), HasTransactions)
    IN  IF \E i \in 1..Len(expenses) : AnyLookupFails(d, expenses[i]) THEN [status |-> 500]
        ELSE [status |-> 200,
              body   |-> [i \in 1..Len(expenses) |->
                  TransactionsEntry(expenses[i], TransactionsWithStatus(d, expenses[i]))]]

\* expenseController.js, lines 112-132: allCompleted starts true and is cleared by
\* the first transaction that has no stored row or an unpaid one.
AllCompletedById(d, expense) ==
    LET list == ExpenseTransactions(d, expense)
    IN  \A i \in 1..Len(list) :
            LET got == MaybeSingle(StatusRows(d.statuses, TransactionIdOf(list[i])))
            IN  got.found /\ got.row.paid

\* expenseController.js, lines 115-132: the loop leaves at the first transaction
\* whose lookup does not answer a paid row (throw, line 126, or break, line 130);
\* the number of lookups it makes.
LookupsById(d, expense) ==
    LET list == ExpenseTransactions(d, expense)
        Leaves(i) ==
            LET got == MaybeSingle(StatusRows(d.statuses, TransactionIdOf(list[i])))
            IN  ~(got.found /\ got.row.paid)
    IN  IF \E i \in 1..Len(list) : Leaves(i)
        THEN CHOOSE i \in 1..Len(list) : Leaves(i) /\ \A j \in 1..(i - 1) : ~Leaves(j)
        ELSE Len(list)

\* Whether one of the lookups made throws: only the last one can.
LookupFailsById(d, expense) ==
    LET list == ExpenseTransactions(d, expense)
        made == LookupsById(d, expense)
    IN  made > 0 /\ LookupFails(d.statuses, TransactionIdOf(list[made]))

\* Lines 135-141: the answer of getExpenseById.
ExpenseByIdAnswer(expense, participants, allCompleted) ==
    [status       |-> 200,
     expense      |-> expense,
     participants |-> participants,
     allCompleted |-> allCompleted]

\* getExpenseById (expenseController.js, lines 64-149), served alone on the store d.
GetExpenseById(d, expenseId) ==
    IF ~HasExpense(d, expenseId) THEN [status |-> 404]
    ELSE IF LookupFailsById(d, ExpenseById(d, expenseId)) THEN [status |-> 500]
    ELSE ExpenseByIdAnswer(ExpenseById(d, expenseId), ParticipantsOf(d, expenseId),
                           AllCompletedById(d, ExpenseById(d, expenseId)))

\* getAllExpenses (expenseController.js, lines 4-61), served alone on the store d.
GetAllExpenses(d) ==
    LET expenses == NewestFirst(d.expenses)
    IN  [status |-> 200,
         body   |-> [i \in 1..Len(expenses) |->
                        [expense      |-> expenses[i],
                         participants |-> ParticipantsOf(d, expenses[i].id)]]]

----------------------------------------------------------------------------
(* Expense writes (src/controllers/expenseController.js).  A request body  *)
(* is [name, amount, payer_id, participants]; a missing name is Absent, a  *)
(* missing amount 0, a missing payer_id NullId, missing participants <<>>; *)
(* participants is an array.                                               *)

\* Lines 156 and 230: the validation of the body.
InvalidExpenseBodyAllowsNoParticipants(body) ==
    \/ NoText(body.name)
    \/ body.amount = 0
    \/ body.payer_id = NullId
InvalidExpenseBody(body) ==
    \/ NoText(body.name)
    \/ body.amount = 0
    \/ body.payer_id = NullId
    \/ Len(body.participants) = 0

\* payer_id INTEGER REFERENCES users(id), user_id INTEGER REFERENCES users(id):
\* NULL or the id of a user.
PayerAccepted(d, payerId) == payerId \in UserIdsOf(d)
ParticipantsAccepted(d, rows) ==
    \A i \in 1..Len(rows) : rows[i].user_id = NullId \/ rows[i].user_id \in UserIdsOf(d)

ParticipantRows(expenseId, rows) ==
    [i \in 1..Len(rows) |->
        [expense_id |-> expenseId, user_id |-> rows[i].user_id, amount |-> rows[i].amount]]

WithoutExpense(d, expenseId) ==
    LET Other(e) == e.id # expenseId IN SelectSeq(d.expenses, Other)
WithoutParticipantsOf(d, expenseId) ==
    LET Other(p) == p.expense_id # expenseId IN SelectSeq(d.participants, Other)

\* The expense row createExpense inserts (lines 165-169).
WithExpense(d, body) ==
    [d EXCEPT !.expenses = Append(@, [id |-> d.nextExpenseId, name |-> body.name,
                                      amount |-> body.amount, payer_id |-> body.payer_id]),
              !.nextExpenseId = @ + 1]

\* createExpense (lines 152-222), served alone on the store d.  The id is taken from the sequence by the insert
\* of the expense (id SERIAL, setup.sql line 11), also when the insert is refused
\* for its payer, and when the participants are refused and the expense is deleted
\* again (lines 184-188).
CreateExpense(d, body) ==
    IF InvalidExpenseBody(body) THEN [db |-> d, status |-> 400]
    ELSE IF ~PayerAccepted(d, body.payer_id)
         THEN [db |-> [d EXCEPT !.nextExpenseId = @ + 1], status |-> 500]
    ELSE IF ~ParticipantsAccepted(d, body.participants)
         THEN [db |-> [d EXCEPT !.nextExpenseId = @ + 1], status |-> 500]
    ELSE [db |-> [d EXCEPT
                    !.expenses = Append(@, [id |-> d.nextExpenseId, name |-> body.name,
                                            amount |-> body.amount,
                                            payer_id |-> body.payer_id]),
                    !.participants = @ \o ParticipantRows(d.nextExpenseId, body.participants),
                    !.nextExpenseId = @ + 1],
          status |-> 201]

UpdatedExpenses(d, expenseId, body) ==
    [i \in 1..Len(d.expenses) |->
        IF d.expenses[i].id = expenseId
        THEN [id |-> expenseId, name |-> body.name, amount |-> body.amount,
              payer_id |-> body.payer_id]
        ELSE d.expenses[i]]

\* updateExpense (lines 225-305), served alone on the store d: update the row, delete its participants, insert
\* the new ones; a refused insert leaves the expense without participants.
UpdateExpense(d, expenseId, body) ==
    IF InvalidExpenseBody(body) THEN [db |-> d, status |-> 400]
    ELSE IF ~HasExpense(d, expenseId) THEN [db |-> d, status |-> 404]
    ELSE IF ~PayerAccepted(d, body.payer_id) THEN [db |-> d, status |-> 500]
    ELSE IF ~ParticipantsAccepted(d, body.participants)
         THEN [db |-> [d EXCEPT !.expenses = UpdatedExpenses(d, expenseId, body),
                                !.participants = WithoutParticipantsOf(d, expenseId)],
               status |-> 500]
    ELSE [db |-> [d EXCEPT !.expenses = UpdatedExpenses(d, expenseId, body),
                           !.participants = WithoutParticipantsOf(d, expenseId)
                                            \o ParticipantRows(expenseId, body.participants)],
          status |-> 200]

\* deleteExpense (lines 308-342), served alone on the store d; the participants go with the expense
\* (ON DELETE CASCADE, setup.sql line 21).
DeleteExpenseDropsStatuses(d, expenseId) ==
    IF ~HasExpense(d, expenseId) THEN [db |-> d, status |-> 404]
    ELSE [db |-> [d EXCEPT !.expenses = WithoutExpense(d, expenseId),
                           !.participants = WithoutParticipantsOf(d, expenseId),
                           !.statuses = <<>>],
          status |-> 200]
DeleteExpense(d, expenseId) ==
    IF ~HasExpense(d, expenseId) THEN [db |-> d, status |-> 404]
    ELSE [db |-> [d EXCEPT !.expenses = WithoutExpense(d, expenseId),
                           !.participants = WithoutParticipantsOf(d, expenseId)],
          status |-> 200]

----------------------------------------------------------------------------
(* User requests (src/controllers/userController.js).                      *)

\* getAllUsers (lines 4-21).
GetAllUsers(d) ==
    LET ids == Ascending(UserIdsOf(d))
    IN  [status |-> 200, body |-> [i \in 1..Len(ids) |-> [id |-> ids[i], name |-> d.users[ids[i]].name]]]

\* getUserById (lines 24-48): .single() answers an error for no row, and the
\* error is thrown before the test of data.
GetUserById(d, userId) ==
    IF userId \notin UserIdsOf(d) THEN [status |-> 500]
    ELSE [status |-> 200, body |-> [id |-> userId, name |-> d.users[userId].name]]

\* createUser (lines 51-76).
CreateUser(d, name) ==
    IF NoText(name) THEN [db |-> d, status |-> 400]
    ELSE [db |-> [d EXCEPT !.users = [u \in UserIdsOf(d) \cup {d.nextUserId} |->
                                         IF u = d.nextUserId THEN [name |-> name]
                                         ELSE d.users[u]],
                           !.nextUserId = @ + 1],
          status |-> 201]

\* updateUser (lines 79-110): .single() answers an error for no row.
UpdateUser(d, userId, name) ==
    IF NoText(name) THEN [db |-> d, status |-> 400]
    ELSE IF userId \notin UserIdsOf(d) THEN [db |-> d, status |-> 500]
    ELSE [db |-> [d EXCEPT !.users[userId] = [name |-> name]], status |-> 200]

IsPayer(d, userId) == \E i \in 1..Len(d.expenses) : d.expenses[i].payer_id = userId
IsParticipant(d, userId) == \E i \in 1..Len(d.participants) : d.participants[i].user_id = userId

\* Whether a row of expenses or of participants refers to the user: the delete of
\* such a user is refused (REFERENCES users(id), setup.sql lines 14 and 22).
Referenced(d, userId) == IsPayer(d, userId) \/ IsParticipant(d, userId)

\* .from('users').delete().eq('id', id) (lines 158-161).
WithoutUser(d, userId) ==
    [d EXCEPT !.users = [u \in UserIdsOf(d) \ {userId} |-> d.users[u]]]

\* deleteUser (lines 113-173), served alone on the store d.
DeleteUser(d, userId) ==
    IF userId \notin UserIdsOf(d) THEN [db |-> d, status |-> 404]
    ELSE IF IsPayer(d, userId) THEN [db |-> d, status |-> 400]
    ELSE IF IsParticipant(d, userId) THEN [db |-> d, status |-> 400]
    ELSE [db |-> WithoutUser(d, userId), status |-> 200]

----------------------------------------------------------------------------
(* updatePaymentStatus (src/unnamed/part_001, lines 386-458).  The handler *)
(* waits for the store twice: for the lookup (lines 400-404) and for the   *)
(* update or insert (lines 423-428, 441-445).  It reads its own time, now  *)
(* (new Date(), lines 414 and 432), when the lookup has answered and       *)
(* before it sends the write; the store stamps the columns the handler     *)
(* does not send (created_at and updated_at of an insert) with its own     *)
(* time, stored, when it performs the write.                               *)

\* Line 415: new Date(now.getTime() + 7 * 60 * 60 * 1000), in hours.
VietnamOffset == 7
VietnamTime(now) == now + VietnamOffset

\* Lines 400-411: existingStatus.
ExistingStatus(statuses, transactionId) == MaybeSingle(StatusRows(statuses, transactionId))

\* Lines 417-428: update the rows of the id; .single() wants exactly one row back.
UpdateStatusKeepsPaidAt(statuses, transactionId, paid, now) ==
    LET updated == [i \in 1..Len(statuses) |->
                       IF statuses[i].transaction_id = transactionId
                       THEN [statuses[i] EXCEPT
                                !.paid = paid,
                                !.paid_at = IF paid THEN VietnamTime(now) ELSE @,
                                !.updated_at = VietnamTime(now)]
                       ELSE statuses[i]]
    IN  IF Len(StatusRows(statuses, transactionId)) = 1
        THEN [statuses |-> updated, error |-> FALSE,
              data |-> StatusRows(updated, transactionId)[1]]
        ELSE [statuses |-> updated, error |-> TRUE]
UpdateStatus(statuses, transactionId, paid, now) ==
    LET updated == [i \in 1..Len(statuses) |->
                       IF statuses[i].transaction_id = transactionId
                       THEN [statuses[i] EXCEPT
                                !.paid = paid,
                                !.paid_at = IF paid THEN VietnamTime(now) ELSE NullTime,
                                !.updated_at = VietnamTime(now)]
                       ELSE statuses[i]]
    IN  IF Len(StatusRows(statuses, transactionId)) = 1
        THEN [statuses |-> updated, error |-> FALSE,
              data |-> StatusRows(updated, transactionId)[1]]
        ELSE [statuses |-> updated, error |-> TRUE]

\* Lines 432-445: insert a row; UNIQUE(transaction_id) (setup.sql line 46) refuses
\* a second row of the same id.  paid_at is computed by the handler from its now;
\* created_at and updated_at, which the handler does not send, take the store's
\* time (DEFAULT CURRENT_TIMESTAMP, setup.sql lines 44-45).
InsertStatusWithoutUnique(statuses, transactionId, paid, now, stored) ==
    LET row == [transaction_id |-> transactionId, paid |-> paid,
                paid_at    |-> IF paid THEN VietnamTime(now) ELSE NullTime,
                created_at |-> stored, updated_at |-> stored]
    IN  [statuses |-> Append(statuses, row), error |-> FALSE, data |-> row]
InsertStatus(statuses, transactionId, paid, now, stored) ==
    LET row == [transaction_id |-> transactionId, paid |-> paid,
                paid_at    |-> IF paid THEN VietnamTime(now) ELSE NullTime,
                created_at |-> stored, updated_at |-> stored]
    IN  IF Len(StatusRows(statuses, transactionId)) > 0
        THEN [statuses |-> statuses, error |-> TRUE]
        ELSE [statuses |-> Append(statuses, row), error |-> FALSE, data |-> row]

\* Lines 411-446: the write the handler chooses from what its lookup found, with
\* the time now the handler read before the write and the time stored of the
\* store when the write is performed.
WriteStatusAlwaysInserts(statuses, existing, transactionId, paid, now, stored) ==
    InsertStatusWithoutUnique(statuses, transactionId, paid, now, stored)
WriteStatus(statuses, existing, transactionId, paid, now, stored) ==
    IF existing THEN UpdateStatus(statuses, transactionId, paid, now)
    ELSE InsertStatus(statuses, transactionId, paid, now, stored)

\* The whole handler for one client at a time: validate, look up, write, answer;
\* nothing happens between its lookup and its write, so the handler and the store
\* read the same time.
\* A body is a record; paid === undefined is a body without the field paid.
UpdatePaymentStatus(d, paymentId, body, now) ==
    IF "paid" \notin DOMAIN body THEN [db |-> d, status |-> 400]
    ELSE LET paid == body.paid
             existing == ExistingStatus(d.statuses, paymentId)
         IN  IF existing.error THEN [db |-> d, status |-> 500]
             ELSE LET written == WriteStatus(d.statuses, existing.found, paymentId, paid,
                                             now, now)
                  IN  IF written.error
                      THEN [db |-> [d EXCEPT !.statuses = written.statuses], status |-> 500]
                      ELSE [db |-> [d EXCEPT !.statuses = written.statuses],
                            status |-> 200, data |-> written.data]

----------------------------------------------------------------------------
(* Specification SpecSettle: calculateTransactions applied to every list   *)
(* of users within the bounds, one action per pass through the loop.       *)

NoMap == <<>>

\* The list of the users 1..n with the balances b, as Object.values(userSummary) orders them.
UserList(b) == [i \in DOMAIN b |-> [id |-> i, balance |-> b[i]]]

\* Balances of three users, in cents, beyond the bounded lists: +0.30, +0.10, -0.40.
ExampleBalances == <<30, 10, -40>>

\* Balances of five users that add up to zero, beyond the bounded lists: two users
\* owe 0.03 each and three users are owed 0.02 each.
OpenCentBalances == <<-3, -3, 2, 2, 2>>

InitSettle ==
    /\ db = EmptyDb /\ clock = 0 /\ upd = <<>> /\ resp = NoResp /\ log = <<>>
    /\ \/ \E n \in 0..MaxSettleUsers :
             \E b \in [1..n -> (-MaxBalance)..MaxBalance] : cdUsers = UserList(b)
       \/ cdUsers = UserList(ExampleBalances)
       \/ cdUsers = UserList(OpenCentBalances)
    /\ debtors = <<>>
    /\ creditors = <<>>
    /\ transactions = <<>>
    /\ iterations = 0
    /\ cdPc = "start"

CdStart ==
    /\ cdPc = "start"
    /\ LET st == SettleStart(AsUserObjects(cdUsers))
       IN  /\ debtors' = st.debtors
           /\ creditors' = st.creditors
           /\ transactions' = st.transactions
    /\ cdPc' = "loop"
    /\ UNCHANGED <<cdUsers, iterations>>
    /\ UNCHANGED storeVars

CdIterate ==
    /\ cdPc = "loop"
    /\ Len(debtors) > 0 /\ Len(creditors) > 0
    /\ LET st == LoopBody([debtors |-> debtors, creditors |-> creditors,
                           transactions |-> transactions], NoMap, NoMap)
       IN  /\ debtors' = st.debtors
           /\ creditors' = st.creditors
           /\ transactions' = st.transactions
    /\ iterations' = iterations + 1
    /\ UNCHANGED <<cdUsers, cdPc>>
    /\ UNCHANGED storeVars

CdReturn ==
    /\ cdPc = "loop"
    /\ ~(Len(debtors) > 0 /\ Len(creditors) > 0)
    /\ cdPc' = "done"
    /\ UNCHANGED <<cdUsers, debtors, creditors, transactions, iterations>>
    /\ UNCHANGED storeVars

NextSettle == CdStart \/ CdIterate \/ CdReturn

SpecSettle == InitSettle /\ [][NextSettle]_vars


----------------------------------------------------------------------------
(* Specification Spec: the API served to two clients from the store        *)
(* setup.sql leaves.  A handler gives the event loop back at every await,  *)
(* so every store operation of a request is one step, and the steps of the *)
(* requests of the two clients interleave.  upd[c] holds the local         *)
(* variables of the handler that serves client c, resp the last answer     *)
(* given and log the number of requests that have arrived.  Under          *)
(* SpecFault the store operation of a step may also answer an error        *)
(* (fails) and then does nothing to the store.                             *)

\* if (usersError) throw usersError, and the like for every read of a table.
ReadThrows(error) == error

\* if (paymentError) throw paymentError (part_001, lines 340, 532, 633;
\* expenseController.js, line 126).
LookupErrorSwallowed(paymentError) == FALSE
LookupThrows(paymentError) == paymentError

\* What the lookup of one id answers: an error when the store fails.
LookupAt(statuses, transactionId, fails) ==
    IF fails THEN [error |-> TRUE, found |-> FALSE]
    ELSE MaybeSingle(StatusRows(statuses, transactionId))

\* The users, names and bodies the requests of the model carry.  One user is created
\* (create is offered while the next id is in NewUserIds) and one expense (while the
\* next id is in ExpenseTargets).
Clients == {1, 2}
RequestUsers == {1, 2}
FirstNewUserId == Len(SeedNames) + 1
NewUserIds == {FirstNewUserId}
UserTargets == {2} \cup NewUserIds
UserNames == {Absent, "", "Khanh"}
ExpenseTargets == {1}

Share(userId) == [user_id |-> userId, amount |-> 1]
ShareLists == { <<Share(1)>>, <<Share(1), Share(2)>>, <<Share(2), Share(2)>> }
ValidBodies ==
    { [name |-> "Lunch", amount |-> 2, payer_id |-> p, participants |-> l] :
        p \in RequestUsers, l \in ShareLists }
SomeBody == [name |-> "Lunch", amount |-> 2, payer_id |-> 1, participants |-> <<Share(2)>>]
InvalidBodies ==
    { [SomeBody EXCEPT !.name = Absent], [SomeBody EXCEPT !.name = ""],
      [SomeBody EXCEPT !.amount = 0],
      [SomeBody EXCEPT !.payer_id = NullId], [SomeBody EXCEPT !.participants = <<>>] }
ExpenseBodies == ValidBodies \cup InvalidBodies

\* The payment ids the status requests name, and the bodies they carry.
PaymentIdList == <<ExpenseTransactionId(1, 2, 1), OverallTransactionId(2, 1)>>
PaymentIds == { PaymentIdList[i] : i \in DOMAIN PaymentIdList }
StatusBodies == { [paid |-> TRUE], [paid |-> FALSE], [note |-> "paid"] }

Init ==
    /\ db = SeededDb
    /\ clock = 0 /\ upd = [c \in Clients |-> Idle] /\ resp = NoResp /\ log = 0
    /\ cdUsers = <<>> /\ debtors = <<>> /\ creditors = <<>> /\ transactions = <<>>
    /\ iterations = 0 /\ cdPc = "start"

\* A request of client c arrives: its handler runs up to its first await.
Arrives(c) == upd[c].pc = "idle" /\ log < MaxRequests /\ log' = log + 1

\* The handler of client c is resumed at pc.
Continues(c, pc) == upd[c].pc = pc /\ UNCHANGED log

\* The handler awaits its next store operation.
GoesOn(c, local) ==
    /\ upd' = [upd EXCEPT ![c] = local]
    /\ UNCHANGED resp

\* The handler answers: res.status(...).json(...).  id is the id of req.params,
\* step the place the handler was resumed at ("idle" for the step of the arrival),
\* failed whether a store operation of the request answered an error because the
\* store failed.
Answers(c, op, id, failed, answer) ==
    /\ upd' = [upd EXCEPT ![c] = Idle]
    /\ resp' = [op |-> op, id |-> id, step |-> upd[c].pc, status |-> answer.status,
                failed |-> failed, answer |-> answer]

\* catch (error) { res.status(500).json(...) }
Failure == [status |-> 500]
Throws(c, op, id, failed) == Answers(c, op, id, failed, Failure)

\* A step that reads the store, and a step that may write it.
StoreKept == UNCHANGED <<db, clock, settleVars>>
StoreBecomes(d) == db' = d /\ UNCHANGED <<clock, settleVars>>

\* The rows a read answered, as the tables of a store.
SeenRows(users, expenses, participants) ==
    [EmptyDb EXCEPT !.users = users, !.expenses = expenses, !.participants = participants]

\* users(id, name) joined to rows that name the ids: the users that exist.
JoinedUsers(d, ids) == [u \in ids \cap UserIdsOf(d) |-> d.users[u]]

----------------------------------------------------------------------------
(* The user requests (src/controllers/userController.js).                  *)

\* getAllUsers (lines 4-21).
ReqGetAllUsers(c, fails) ==
    /\ Arrives(c)
    /\ IF ReadThrows(fails) THEN Throws(c, "getAllUsers", NullId, TRUE)
       ELSE Answers(c, "getAllUsers", NullId, FALSE, GetAllUsers(db))
    /\ StoreKept

\* getUserById (lines 24-48).
ReqGetUserById(c, fails) ==
    /\ Arrives(c)
    /\ \E id \in UserTargets :
          IF ReadThrows(fails) THEN Throws(c, "getUserById", id, TRUE)
          ELSE Answers(c, "getUserById", id, FALSE, GetUserById(db, id))
    /\ StoreKept

\* createUser (lines 51-76): the validation, and the insert.
ReqCreateUser(c, fails) ==
    /\ Arrives(c)
    /\ db.nextUserId \in NewUserIds
    /\ \E name \in UserNames :
          IF ~NoText(name) /\ fails
          THEN Throws(c, "createUser", NullId, TRUE) /\ StoreKept
          ELSE /\ Answers(c, "createUser", NullId, FALSE,
                          [status |-> CreateUser(db, name).status])
               /\ StoreBecomes(CreateUser(db, name).db)

\* updateUser (lines 79-110): the validation, and the update.
ReqUpdateUser(c, fails) ==
    /\ Arrives(c)
    /\ \E id \in UserTargets, name \in UserNames :
          IF ~NoText(name) /\ fails
          THEN Throws(c, "updateUser", id, TRUE) /\ StoreKept
          ELSE /\ Answers(c, "updateUser", id, FALSE,
                          [status |-> UpdateUser(db, id, name).status])
               /\ StoreBecomes(UpdateUser(db, id, name).db)

\* deleteUser, lines 118-126: the check of the user; an error of the check is
\* answered as a missing user is.
ReqDeleteUser(c, fails) ==
    /\ Arrives(c)
    /\ \E id \in UserTargets :
          IF fails \/ id \notin UserIdsOf(db)
          THEN Answers(c, "deleteUser", id, fails, [status |-> 404])
          ELSE GoesOn(c, [pc |-> "DeleteUserExpenses", id |-> id])
    /\ StoreKept

\* deleteUser, lines 129-141: the expenses the user paid.
DeleteUserExpenses(c, fails) ==
    /\ Continues(c, "DeleteUserExpenses")
    /\ IF ReadThrows(fails) THEN Throws(c, "deleteUser", upd[c].id, TRUE)
       ELSE IF IsPayer(db, upd[c].id)
       THEN Answers(c, "deleteUser", upd[c].id, FALSE, [status |-> 400])
       ELSE GoesOn(c, [pc |-> "DeleteUserParticipants", id |-> upd[c].id])
    /\ StoreKept

\* deleteUser, lines 143-155: the shares of the user.
DeleteUserParticipants(c, fails) ==
    /\ Continues(c, "DeleteUserParticipants")
    /\ IF ReadThrows(fails) THEN Throws(c, "deleteUser", upd[c].id, TRUE)
       ELSE IF IsParticipant(db, upd[c].id)
       THEN Answers(c, "deleteUser", upd[c].id, FALSE, [status |-> 400])
       ELSE GoesOn(c, [pc |-> "DeleteUserDelete", id |-> upd[c].id])
    /\ StoreKept

\* deleteUser, lines 158-165: the delete, which the store refuses for a user that
\* a row of expenses or participants refers to by now.
DeleteUserDelete(c, fails) ==
    /\ Continues(c, "DeleteUserDelete")
    /\ IF fails \/ Referenced(db, upd[c].id)
       THEN Throws(c, "deleteUser", upd[c].id, fails) /\ StoreKept
       ELSE /\ Answers(c, "deleteUser", upd[c].id, FALSE, [status |-> 200])
            /\ StoreBecomes(WithoutUser(db, upd[c].id))

----------------------------------------------------------------------------
(* The expense requests (src/controllers/expenseController.js).            *)

\* getAllExpenses, lines 7-18 and 50-53: the expenses; with none the answer is
\* given at once.
ReqGetAllExpenses(c, fails) ==
    /\ Arrives(c)
    /\ IF ReadThrows(fails) THEN Throws(c, "getAllExpenses", NullId, TRUE)
       ELSE IF Len(db.expenses) = 0
       THEN Answers(c, "getAllExpenses", NullId, FALSE, GetAllExpenses(db))
       ELSE GoesOn(c, [pc |-> "GetAllExpensesParticipants", expenses |-> db.expenses])
    /\ StoreKept

\* getAllExpenses, lines 22-49: the participants of the expenses read, and the
\* answer.
GetAllExpensesParticipants(c, fails) ==
    /\ Continues(c, "GetAllExpensesParticipants")
    /\ IF ReadThrows(fails) THEN Throws(c, "getAllExpenses", NullId, TRUE)
       ELSE Answers(c, "getAllExpenses", NullId, FALSE,
                    GetAllExpenses(SeenRows(<<>>, upd[c].expenses, db.participants)))
    /\ StoreKept

\* getExpenseById, lines 69-83: the expense.
ReqGetExpenseById(c, fails) ==
    /\ Arrives(c)
    /\ \E id \in ExpenseTargets :
          IF ReadThrows(fails) THEN Throws(c, "getExpenseById", id, TRUE)
          ELSE IF ~HasExpense(db, id)
          THEN Answers(c, "getExpenseById", id, FALSE, [status |-> 404])
          ELSE GoesOn(c, [pc |-> "GetExpenseByIdParticipants",
                          expense |-> ExpenseById(db, id)])
    /\ StoreKept

\* getExpenseById, lines 86-113: the participants; with no transaction the loop is
\* not entered.
GetExpenseByIdParticipants(c, fails) ==
    /\ Continues(c, "GetExpenseByIdParticipants")
    /\ LET expense == upd[c].expense
           participants == ParticipantsOf(db, expense.id)
       IN  IF ReadThrows(fails) THEN Throws(c, "getExpenseById", expense.id, TRUE)
           ELSE IF Len(ExpenseTransactions(SeenRows(<<>>, <<>>, participants), expense)) = 0
           THEN Answers(c, "getExpenseById", expense.id, FALSE,
                        ExpenseByIdAnswer(expense, participants, TRUE))
           ELSE GoesOn(c, [pc |-> "GetExpenseByIdLookup", expense |-> expense,
                           participants |-> participants, i |-> 1])
    /\ StoreKept

\* getExpenseById, lines 115-141: the lookup of one transaction; the loop is left
\* at the first that is not stored as paid.
GetExpenseByIdLookup(c, fails) ==
    /\ Continues(c, "GetExpenseByIdLookup")
    /\ LET local == upd[c]
           list == ExpenseTransactions(SeenRows(<<>>, <<>>, local.participants),
                                       local.expense)
           got == LookupAt(db.statuses, TransactionIdOf(list[local.i]), fails)
       IN  IF LookupThrows(got.error)
           THEN Throws(c, "getExpenseById", local.expense.id, fails)
           ELSE IF ~Completes(got)
           THEN Answers(c, "getExpenseById", local.expense.id, fails,
                        ExpenseByIdAnswer(local.expense, local.participants, FALSE))
           ELSE IF local.i = Len(list)
           THEN Answers(c, "getExpenseById", local.expense.id, fails,
                        ExpenseByIdAnswer(local.expense, local.participants, TRUE))
           ELSE GoesOn(c, [local EXCEPT !.i = @ + 1])
    /\ StoreKept

\* createExpense, lines 153-171: the validation and the insert of the expense,
\* which takes the id also when the store refuses the payer.
ReqCreateExpense(c, fails) ==
    /\ Arrives(c)
    /\ db.nextExpenseId \in ExpenseTargets
    /\ \E body \in ExpenseBodies :
          IF InvalidExpenseBody(body)
          THEN Answers(c, "createExpense", NullId, FALSE, [status |-> 400]) /\ StoreKept
          ELSE IF fails
          THEN Throws(c, "createExpense", NullId, TRUE) /\ StoreKept
          ELSE IF ~PayerAccepted(db, body.payer_id)
          THEN /\ Throws(c, "createExpense", NullId, FALSE)
               /\ StoreBecomes([db EXCEPT !.nextExpenseId = @ + 1])
          ELSE /\ GoesOn(c, [pc |-> "CreateExpenseParticipants", id |-> db.nextExpenseId,
                             body |-> body])
               /\ StoreBecomes(WithExpense(db, body))

\* createExpense, lines 174-184: the insert of the participants, which the store
\* refuses when the expense is gone or a share names no user.
CreateExpenseParticipants(c, fails) ==
    /\ Continues(c, "CreateExpenseParticipants")
    /\ LET local == upd[c]
       IN  IF \/ fails
              \/ ~HasExpense(db, local.id)
              \/ ~ParticipantsAccepted(db, local.body.participants)
           THEN /\ GoesOn(c, [pc |-> "CreateExpenseUndo", id |-> local.id, failed |-> fails])
                /\ StoreKept
           ELSE /\ GoesOn(c, [pc |-> "CreateExpenseReadExpense", id |-> local.id])
                /\ StoreBecomes([db EXCEPT !.participants =
                                    @ \o ParticipantRows(local.id, local.body.participants)])

\* createExpense, lines 185-188: the expense is deleted again; the answer of the
\* delete is not looked at.
CreateExpenseUndo(c, fails) ==
    /\ Continues(c, "CreateExpenseUndo")
    /\ Throws(c, "createExpense", NullId, upd[c].failed \/ fails)
    /\ StoreBecomes(IF fails THEN db ELSE DeleteExpense(db, upd[c].id).db)

\* .eq('id', expense.id).single() of the closing reads: data is the row, or null.
SingleExpense(d, expenseId, fails) ==
    IF fails \/ ~HasExpense(d, expenseId) THEN <<>> ELSE <<ExpenseById(d, expenseId)>>

\* createExpense, lines 191-198: the expense is read back; an error is not looked
\* at.
CreateExpenseReadExpense(c, fails) ==
    /\ Continues(c, "CreateExpenseReadExpense")
    /\ GoesOn(c, [pc |-> "CreateExpenseReadParticipants", id |-> upd[c].id,
                  failed |-> fails, expense |-> SingleExpense(db, upd[c].id, fails)])
    /\ StoreKept

\* createExpense, lines 200-214: the participants are read back, and the answer.
CreateExpenseReadParticipants(c, fails) ==
    /\ Continues(c, "CreateExpenseReadParticipants")
    /\ Answers(c, "createExpense", NullId, upd[c].failed \/ fails,
               [status |-> 201, expense |-> upd[c].expense,
                participants |-> IF fails THEN <<>> ELSE ParticipantsOf(db, upd[c].id)])
    /\ StoreKept

\* updateExpense, lines 226-250: the validation and the update of the row.
ReqUpdateExpense(c, fails) ==
    /\ Arrives(c)
    /\ \E id \in ExpenseTargets, body \in ExpenseBodies :
          IF InvalidExpenseBody(body)
          THEN Answers(c, "updateExpense", id, FALSE, [status |-> 400]) /\ StoreKept
          ELSE IF fails
          THEN Throws(c, "updateExpense", id, TRUE) /\ StoreKept
          ELSE IF ~HasExpense(db, id)
          THEN Answers(c, "updateExpense", id, FALSE, [status |-> 404]) /\ StoreKept
          ELSE IF ~PayerAccepted(db, body.payer_id)
          THEN Throws(c, "updateExpense", id, FALSE) /\ StoreKept
          ELSE /\ GoesOn(c, [pc |-> "UpdateExpenseDelete", id |-> id, body |-> body])
               /\ StoreBecomes([db EXCEPT !.expenses = UpdatedExpenses(db, id, body)])

\* updateExpense, lines 253-258: the delete of the participants.
UpdateExpenseDelete(c, fails) ==
    /\ Continues(c, "UpdateExpenseDelete")
    /\ IF fails
       THEN Throws(c, "updateExpense", upd[c].id, TRUE) /\ StoreKept
       ELSE /\ GoesOn(c, [upd[c] EXCEPT !.pc = "UpdateExpenseInsert"])
            /\ StoreBecomes([db EXCEPT !.participants = WithoutParticipantsOf(db, upd[c].id)])

\* updateExpense, lines 261-271: the insert of the new participants, which the
\* store refuses when the expense is gone or a share names no user.
UpdateExpenseInsert(c, fails) ==
    /\ Continues(c, "UpdateExpenseInsert")
    /\ LET local == upd[c]
       IN  IF \/ fails
              \/ ~HasExpense(db, local.id)
              \/ ~ParticipantsAccepted(db, local.body.participants)
           THEN Throws(c, "updateExpense", local.id, fails) /\ StoreKept
           ELSE /\ GoesOn(c, [pc |-> "UpdateExpenseReadExpense", id |-> local.id])
                /\ StoreBecomes([db EXCEPT !.participants =
                                    @ \o ParticipantRows(local.id, local.body.participants)])

\* updateExpense, lines 274-281: the expense is read back; an error is not looked
\* at.
UpdateExpenseReadExpense(c, fails) ==
    /\ Continues(c, "UpdateExpenseReadExpense")
    /\ GoesOn(c, [pc |-> "UpdateExpenseReadParticipants", id |-> upd[c].id,
                  failed |-> fails, expense |-> SingleExpense(db, upd[c].id, fails)])
    /\ StoreKept

\* updateExpense, lines 283-297: the participants are read back, and the answer.
UpdateExpenseReadParticipants(c, fails) ==
    /\ Continues(c, "UpdateExpenseReadParticipants")
    /\ Answers(c, "updateExpense", upd[c].id, upd[c].failed \/ fails,
               [status |-> 200, expense |-> upd[c].expense,
                participants |-> IF fails THEN <<>> ELSE ParticipantsOf(db, upd[c].id)])
    /\ StoreKept

\* deleteExpense, lines 313-324: the check of the expense.
ReqDeleteExpense(c, fails) ==
    /\ Arrives(c)
    /\ \E id \in ExpenseTargets :
          IF ReadThrows(fails) THEN Throws(c, "deleteExpense", id, TRUE)
          ELSE IF ~HasExpense(db, id)
          THEN Answers(c, "deleteExpense", id, FALSE, [status |-> 404])
          ELSE GoesOn(c, [pc |-> "DeleteExpenseDelete", id |-> id])
    /\ StoreKept

\* deleteExpense, lines 327-334: the delete, which is no error when the expense is
\* gone by now.
DeleteExpenseDelete(c, fails) ==
    /\ Continues(c, "DeleteExpenseDelete")
    /\ IF fails
       THEN Throws(c, "deleteExpense", upd[c].id, TRUE) /\ StoreKept
       ELSE /\ Answers(c, "deleteExpense", upd[c].id, FALSE, [status |-> 200])
            /\ StoreBecomes(DeleteExpense(db, upd[c].id).db)

----------------------------------------------------------------------------
(* The summary requests (src/unnamed/part_001).                            *)

\* getSummary, lines 7-12: the users.
ReqGetSummary(c, fails) ==
    /\ Arrives(c)
    /\ IF ReadThrows(fails) THEN Throws(c, "getSummary", NullId, TRUE)
       ELSE GoesOn(c, [pc |-> "GetSummaryExpenses", seen |-> SeenRows(db.users, <<>>, <<>>)])
    /\ StoreKept

\* getSummary, lines 15-24: the expenses.
GetSummaryExpenses(c, fails) ==
    /\ Continues(c, "GetSummaryExpenses")
    /\ IF ReadThrows(fails) THEN Throws(c, "getSummary", NullId, TRUE)
       ELSE GoesOn(c, [pc |-> "GetSummaryParticipants",
                       seen |-> [upd[c].seen EXCEPT !.expenses = db.expenses]])
    /\ StoreKept

\* getSummary, lines 27-35: the participants.
GetSummaryParticipants(c, fails) ==
    /\ Continues(c, "GetSummaryParticipants")
    /\ IF ReadThrows(fails) THEN Throws(c, "getSummary", NullId, TRUE)
       ELSE GoesOn(c, [pc |-> "GetSummaryStatuses",
                       seen |-> [upd[c].seen EXCEPT !.participants = db.participants]])
    /\ StoreKept

\* getSummary, lines 38-175: the payment statuses, and the summary computed from
\* the four results.
GetSummaryStatuses(c, fails) ==
    /\ Continues(c, "GetSummaryStatuses")
    /\ IF ReadThrows(fails) THEN Throws(c, "getSummary", NullId, TRUE)
       ELSE Answers(c, "getSummary", NullId, FALSE,
                    GetSummary([upd[c].seen EXCEPT !.statuses = db.statuses]))
    /\ StoreKept

\* getExpenseSummary, lines 261-275: the expense and its payer.
ReqGetExpenseSummary(c, fails) ==
    /\ Arrives(c)
    /\ \E id \in ExpenseTargets :
          IF ReadThrows(fails) THEN Throws(c, "getExpenseSummary", id, TRUE)
          ELSE IF ~HasExpense(db, id)
          THEN Answers(c, "getExpenseSummary", id, FALSE, [status |-> 404])
          ELSE GoesOn(c, [pc |-> "GetExpenseSummaryParticipants",
                          expense |-> ExpenseById(db, id),
                          payer |-> JoinedUsers(db, {ExpenseById(db, id).payer_id})])
    /\ StoreKept

\* Lines 289-309: userMap, the payer first and then the users of the participants.
UserMapOf(payer, users) ==
    [u \in DOMAIN payer \cup DOMAIN users |-> IF u \in DOMAIN users THEN users[u] ELSE payer[u]]

\* getExpenseSummary, lines 278-324: the participants and their users; line 292
\* throws for an expense without payer; with no transaction the loop is not entered.
GetExpenseSummaryParticipants(c, fails) ==
    /\ Continues(c, "GetExpenseSummaryParticipants")
    /\ LET expense == upd[c].expense
           participants == ParticipantsOf(db, expense.id)
           users == JoinedUsers(db, { participants[i].user_id : i \in 1..Len(participants) })
           seen == SeenRows(UserMapOf(upd[c].payer, users), <<>>, participants)
       IN  IF ReadThrows(fails) THEN Throws(c, "getExpenseSummary", expense.id, TRUE)
           ELSE IF PayerMissing(expense) THEN Throws(c, "getExpenseSummary", expense.id, FALSE)
           ELSE IF Len(ExpenseTransactions(seen, expense)) = 0
           THEN Answers(c, "getExpenseSummary", expense.id, FALSE,
                        ExpenseSummaryAnswer(seen, expense, <<>>))
           ELSE GoesOn(c, [pc |-> "GetExpenseSummaryLookup", expense |-> expense,
                           seen |-> seen, got |-> <<>>])
    /\ StoreKept

\* getExpenseSummary, lines 329-375: the lookup of one transaction; after the last
\* one the answer.
GetExpenseSummaryLookup(c, fails) ==
    /\ Continues(c, "GetExpenseSummaryLookup")
    /\ LET local == upd[c]
           list == ExpenseTransactions(local.seen, local.expense)
           got == LookupAt(db.statuses, TransactionIdOf(list[Len(local.got) + 1]), fails)
       IN  IF LookupThrows(got.error)
           THEN Throws(c, "getExpenseSummary", local.expense.id, fails)
           ELSE IF Len(local.got) + 1 = Len(list)
           THEN Answers(c, "getExpenseSummary", local.expense.id, fails,
                        ExpenseSummaryAnswer(local.seen, local.expense,
                                             Append(local.got, got)))
           ELSE GoesOn(c, [local EXCEPT !.got = Append(@, got)])
    /\ StoreKept

\* The loop over the expenses of a list view (lines 492 and 592) goes to the next
\* expense, or the answer is given when none is left (lines 549 and 671).
NextExpense(c, op, pc, local, entries) ==
    IF local.k = Len(local.expenses)
    THEN Answers(c, op, NullId, FALSE, [status |-> 200, body |-> entries])
    ELSE GoesOn(c, [pc |-> pc, expenses |-> local.expenses, userMap |-> local.userMap,
                    k |-> local.k + 1, entries |-> entries])

\* getExpensesWithStatus, lines 464-475: the expenses, newest first.
ReqGetExpensesWithStatus(c, fails) ==
    /\ Arrives(c)
    /\ IF ReadThrows(fails) THEN Throws(c, "getExpensesWithStatus", NullId, TRUE)
       ELSE GoesOn(c, [pc |-> "GetExpensesWithStatusUsers",
                       expenses |-> NewestFirst(db.expenses)])
    /\ StoreKept

\* getExpensesWithStatus, lines 478-490: the users and the map of their names.
GetExpensesWithStatusUsers(c, fails) ==
    /\ Continues(c, "GetExpensesWithStatusUsers")
    /\ IF ReadThrows(fails) THEN Throws(c, "getExpensesWithStatus", NullId, TRUE)
       ELSE NextExpense(c, "getExpensesWithStatus", "GetExpensesWithStatusParticipants",
                        [expenses |-> upd[c].expenses, userMap |-> db.users, k |-> 0], <<>>)
    /\ StoreKept

\* getExpensesWithStatus, lines 494-519: the participants of the expense; with no
\* transaction the entry is pushed at once.
GetExpensesWithStatusParticipants(c, fails) ==
    /\ Continues(c, "GetExpensesWithStatusParticipants")
    /\ LET local == upd[c]
           expense == local.expenses[local.k]
           participants == ParticipantsOf(db, expense.id)
           paymentCount ==
               Len(ExpenseTransactions(SeenRows(<<>>, <<>>, participants), expense))
       IN  IF ReadThrows(fails) THEN Throws(c, "getExpensesWithStatus", NullId, TRUE)
           ELSE IF paymentCount = 0
           THEN NextExpense(c, "getExpensesWithStatus", "GetExpensesWithStatusParticipants",
                            local,
                            Append(local.entries,
                                   StatusEntry(expense, local.userMap, participants, 0, 0)))
           ELSE GoesOn(c, [pc |-> "GetExpensesWithStatusLookup",
                           expenses |-> local.expenses, userMap |-> local.userMap,
                           k |-> local.k, entries |-> local.entries,
                           participants |-> participants, paymentCount |-> paymentCount,
                           i |-> 1, completedCount |-> 0])
    /\ StoreKept

\* getExpensesWithStatus, lines 521-547: the lookup of one transaction; after the
\* last one the entry of the expense is pushed.
GetExpensesWithStatusLookup(c, fails) ==
    /\ Continues(c, "GetExpensesWithStatusLookup")
    /\ LET local == upd[c]
           expense == local.expenses[local.k]
           list == ExpenseTransactions(SeenRows(<<>>, <<>>, local.participants), expense)
           got == LookupAt(db.statuses, TransactionIdOf(list[local.i]), fails)
           completedCount == local.completedCount + (IF Completes(got) THEN 1 ELSE 0)
       IN  IF LookupThrows(got.error) THEN Throws(c, "getExpensesWithStatus", NullId, fails)
           ELSE IF local.i = Len(list)
           THEN NextExpense(c, "getExpensesWithStatus", "GetExpensesWithStatusParticipants",
                            local,
                            Append(local.entries,
                                   StatusEntry(expense, local.userMap, local.participants,
                                               local.paymentCount, completedCount)))
           ELSE GoesOn(c, [local EXCEPT !.i = @ + 1, !.completedCount = completedCount])
    /\ StoreKept

\* getExpensesTransactions, lines 563-574: the expenses, newest first.
ReqGetExpensesTransactions(c, fails) ==
    /\ Arrives(c)
    /\ IF ReadThrows(fails) THEN Throws(c, "getExpensesTransactions", NullId, TRUE)
       ELSE GoesOn(c, [pc |-> "GetExpensesTransactionsUsers",
                       expenses |-> NewestFirst(db.expenses)])
    /\ StoreKept

\* getExpensesTransactions, lines 577-590: the users.
GetExpensesTransactionsUsers(c, fails) ==
    /\ Continues(c, "GetExpensesTransactionsUsers")
    /\ IF ReadThrows(fails) THEN Throws(c, "getExpensesTransactions", NullId, TRUE)
       ELSE NextExpense(c, "getExpensesTransactions", "GetExpensesTransactionsParticipants",
                        [expenses |-> upd[c].expenses, userMap |-> db.users, k |-> 0], <<>>)
    /\ StoreKept

\* getExpensesTransactions, lines 594-617: the participants of the expense; an
\* expense with no transaction is skipped.
GetExpensesTransactionsParticipants(c, fails) ==
    /\ Continues(c, "GetExpensesTransactionsParticipants")
    /\ LET local == upd[c]
           expense == local.expenses[local.k]
           participants == ParticipantsOf(db, expense.id)
       IN  IF ReadThrows(fails) THEN Throws(c, "getExpensesTransactions", NullId, TRUE)
           ELSE IF Len(ExpenseTransactions(SeenRows(<<>>, <<>>, participants), expense)) = 0
           THEN NextExpense(c, "getExpensesTransactions",
                            "GetExpensesTransactionsParticipants", local, local.entries)
           ELSE GoesOn(c, [pc |-> "GetExpensesTransactionsLookup",
                           expenses |-> local.expenses, userMap |-> local.userMap,
                           k |-> local.k, entries |-> local.entries,
                           participants |-> participants, got |-> <<>>])
    /\ StoreKept

\* getExpensesTransactions, lines 622-668: the lookup of one transaction; after the
\* last one the entry of the expense is pushed.
GetExpensesTransactionsLookup(c, fails) ==
    /\ Continues(c, "GetExpensesTransactionsLookup")
    /\ LET local == upd[c]
           expense == local.expenses[local.k]
           seen == SeenRows(local.userMap, <<>>, local.participants)
           list == ExpenseTransactions(seen, expense)
           got == LookupAt(db.statuses, TransactionIdOf(list[Len(local.got) + 1]), fails)
       IN  IF LookupThrows(got.error)
           THEN Throws(c, "getExpensesTransactions", NullId, fails)
           ELSE IF Len(local.got) + 1 = Len(list)
           THEN NextExpense(c, "getExpensesTransactions",
                            "GetExpensesTransactionsParticipants", local,
                            Append(local.entries,
                                   TransactionsEntry(expense,
                                       TransactionsFrom(seen, expense,
                                                        Append(local.got, got)))))
           ELSE GoesOn(c, [local EXCEPT !.got = Append(@, got)])
    /\ StoreKept

\* updatePaymentStatus, lines 388-421 and 432-439: the validation and the lookup of
\* the id; when the lookup has answered the handler reads its time (new Date()) and
\* builds the row it is going to send.
ReqUpdatePaymentStatus(c, fails) ==
    /\ Arrives(c)
    /\ \E paymentId \in PaymentIds, body \in StatusBodies :
          IF "paid" \notin DOMAIN body
          THEN Answers(c, "updatePaymentStatus", NullId, FALSE, [status |-> 400])
          ELSE IF ReadThrows(LookupAt(db.statuses, paymentId, fails).error)
          THEN Throws(c, "updatePaymentStatus", NullId, fails)
          ELSE GoesOn(c, [pc |-> "UpdatePaymentStatusWrite", paymentId |-> paymentId,
                          paid |-> body.paid, now |-> clock,
                          existing |-> ExistingStatus(db.statuses, paymentId).found])
    /\ StoreKept

\* updatePaymentStatus, lines 423-450: the update or the insert of the row built
\* with the time the handler read after its lookup, performed by the store at the
\* time of the clock, and the answer.
UpdatePaymentStatusWrite(c, fails) ==
    /\ Continues(c, "UpdatePaymentStatusWrite")
    /\ LET written == WriteStatus(db.statuses, upd[c].existing, upd[c].paymentId,
                                  upd[c].paid, upd[c].now, clock)
       IN  IF fails
           THEN Throws(c, "updatePaymentStatus", NullId, TRUE) /\ UNCHANGED db
           ELSE /\ db' = [db EXCEPT !.statuses = written.statuses]
                /\ IF written.error THEN Throws(c, "updatePaymentStatus", NullId, FALSE)
                   ELSE Answers(c, "updatePaymentStatus", NullId, FALSE,
                                [status |-> 200, data |-> written.data])
    /\ clock' = clock + 1
    /\ UNCHANGED settleVars

\* One step of the handler that serves client c.
Serves(c, fails) ==
    \/ ReqGetAllUsers(c, fails) \/ ReqGetUserById(c, fails) \/ ReqCreateUser(c, fails)
    \/ ReqUpdateUser(c, fails)
    \/ ReqDeleteUser(c, fails) \/ DeleteUserExpenses(c, fails)
    \/ DeleteUserParticipants(c, fails) \/ DeleteUserDelete(c, fails)
    \/ ReqGetAllExpenses(c, fails) \/ GetAllExpensesParticipants(c, fails)
    \/ ReqGetExpenseById(c, fails) \/ GetExpenseByIdParticipants(c, fails)
    \/ GetExpenseByIdLookup(c, fails)
    \/ ReqCreateExpense(c, fails) \/ CreateExpenseParticipants(c, fails)
    \/ CreateExpenseUndo(c, fails) \/ CreateExpenseReadExpense(c, fails)
    \/ CreateExpenseReadParticipants(c, fails)
    \/ ReqUpdateExpense(c, fails) \/ UpdateExpenseDelete(c, fails)
    \/ UpdateExpenseInsert(c, fails) \/ UpdateExpenseReadExpense(c, fails)
    \/ UpdateExpenseReadParticipants(c, fails)
    \/ ReqDeleteExpense(c, fails) \/ DeleteExpenseDelete(c, fails)
    \/ ReqGetSummary(c, fails) \/ GetSummaryExpenses(c, fails)
    \/ GetSummaryParticipants(c, fails) \/ GetSummaryStatuses(c, fails)
    \/ ReqGetExpenseSummary(c, fails) \/ GetExpenseSummaryParticipants(c, fails)
    \/ GetExpenseSummaryLookup(c, fails)
    \/ ReqGetExpensesWithStatus(c, fails) \/ GetExpensesWithStatusUsers(c, fails)
    \/ GetExpensesWithStatusParticipants(c, fails) \/ GetExpensesWithStatusLookup(c, fails)
    \/ ReqGetExpensesTransactions(c, fails) \/ GetExpensesTransactionsUsers(c, fails)
    \/ GetExpensesTransactionsParticipants(c, fails)
    \/ GetExpensesTransactionsLookup(c, fails)
    \/ ReqUpdatePaymentStatus(c, fails) \/ UpdatePaymentStatusWrite(c, fails)

Next == \E c \in Clients : Serves(c, FALSE)

Spec == Init /\ [][Next]_vars

----------------------------------------------------------------------------
(* SpecFault: the same handlers when a store operation may fail.           *)

NextFault == \E c \in Clients, fails \in BOOLEAN : Serves(c, fails)

SpecFault == Init /\ [][NextFault]_vars

----------------------------------------------------------------------------
(* Specifications SpecSeq and SpecRace: updatePaymentStatus as the two     *)
(* steps it takes at the store, the lookup and the write, for one client   *)
(* (SpecSeq) and for two clients whose steps interleave (SpecRace).  The   *)
(* store starts with any choice of absent, unpaid or paid for each id.     *)

SeqClients == {1}
RaceClients == {1, 2}

StoredChoices == {"absent", "unpaid", "paid"}

RECURSIVE StatusesFrom(_, _)
StatusesFrom(ids, choice) ==
    IF ids = <<>> THEN <<>>
    ELSE LET rest == StatusesFrom(Tail(ids), choice)
         IN  IF choice[Head(ids)] = "absent" THEN rest
             ELSE InsertStatus(rest, Head(ids), choice[Head(ids)] = "paid", 0, 0).statuses

InitStatus(clients) ==
    /\ \E choice \in [PaymentIds -> StoredChoices] :
          db = [SeededDb EXCEPT !.statuses = StatusesFrom(PaymentIdList, choice)]
    /\ clock = 1
    /\ upd = [c \in clients |-> Idle]
    /\ resp = NoResp /\ log = <<>>
    /\ cdUsers = <<>> /\ debtors = <<>> /\ creditors = <<>> /\ transactions = <<>>
    /\ iterations = 0 /\ cdPc = "start"

InFlight == { c \in DOMAIN upd : upd[c].pc = "write" }

\* Lines 388-421 and 432-439: the request arrives, is validated and looks the id
\* up; when the lookup has answered the handler reads its time (new Date()).
UpdLookup(c) ==
    /\ upd[c].pc = "idle"
    /\ Len(log) + Cardinality(InFlight) < MaxCalls
    /\ \E paymentId \in PaymentIds, body \in StatusBodies :
          IF "paid" \notin DOMAIN body
          THEN /\ resp' = [op |-> "updatePaymentStatus", status |-> 400]
               /\ log' = Append(log, [client |-> c, paymentId |-> paymentId, status |-> 400])
               /\ UNCHANGED upd
          ELSE IF ExistingStatus(db.statuses, paymentId).error
          THEN /\ resp' = [op |-> "updatePaymentStatus", status |-> 500]
               /\ log' = Append(log, [client |-> c, paymentId |-> paymentId,
                                      paid |-> body.paid, status |-> 500])
               /\ UNCHANGED upd
          ELSE /\ upd' = [upd EXCEPT ![c] =
                             [pc |-> "write", paymentId |-> paymentId, paid |-> body.paid,
                              now |-> clock,
                              existing |-> ExistingStatus(db.statuses, paymentId).found]]
               /\ UNCHANGED <<resp, log>>
    /\ UNCHANGED <<db, clock, settleVars>>

\* Lines 423-457: the update or the insert of the row built with the time the
\* handler read after its lookup, and the answer.
UpdWrite(c) ==
    /\ upd[c].pc = "write"
    /\ LET written == WriteStatus(db.statuses, upd[c].existing, upd[c].paymentId,
                                  upd[c].paid, upd[c].now, clock)
           status == IF written.error THEN 500 ELSE 200
       IN  /\ db' = [db EXCEPT !.statuses = written.statuses]
           /\ resp' = [op |-> "updatePaymentStatus", status |-> status]
           /\ log' = Append(log, [client |-> c, paymentId |-> upd[c].paymentId,
                                  paid |-> upd[c].paid, status |-> status])
    /\ clock' = clock + 1
    /\ upd' = [upd EXCEPT ![c] = Idle]
    /\ UNCHANGED settleVars

InitSeq == InitStatus(SeqClients)
NextSeq == \E c \in SeqClients : UpdLookup(c) \/ UpdWrite(c)
SpecSeq == InitSeq /\ [][NextSeq]_vars

InitRace == InitStatus(RaceClients)
NextRace == \E c \in RaceClients : UpdLookup(c) \/ UpdWrite(c)
SpecRace == InitRace /\ [][NextRace]_vars

----------------------------------------------------------------------------
(* SpecCount: getExpensesWithStatus (part_001, lines 461-557) one store    *)
(* read at a time, with the two store operations of the updatePaymentStatus *)
(* requests of another client arriving between its reads.  upd holds the   *)
(* local variables of the two handlers.                                    *)

\* The stored expenses of SpecCount: expense 1, paid by user 1, with a drawn list of
\* shares, and expense 2, paid by user 2, with one share of user 1.
CountRows == {1, 2, 3}
CountUsers == {1, 2, 3}
CountShareLists ==
    UNION { [1..n -> { Share(u) : u \in CountUsers }] : n \in CountRows }
CountDb(shares) ==
    [SeededDb EXCEPT
        !.expenses = << [id |-> 1, name |-> "Lunch", amount |-> 3, payer_id |-> 1],
                        [id |-> 2, name |-> "Taxi", amount |-> 1, payer_id |-> 2] >>,
        !.participants = ParticipantRows(1, shares) \o ParticipantRows(2, <<Share(1)>>),
        !.nextExpenseId = 3]
CountPaymentIds ==
    { ExpenseTransactionId(1, u, 1) : u \in CountUsers \ {1} }
        \cup { ExpenseTransactionId(2, 1, 2) }

InitCount ==
    /\ \E shares \in CountShareLists : db = CountDb(shares)
    /\ clock = 0 /\ upd = [reader |-> Idle, writer |-> Idle] /\ resp = NoResp /\ log = <<>>
    /\ cdUsers = <<>> /\ debtors = <<>> /\ creditors = <<>> /\ transactions = <<>>
    /\ iterations = 0 /\ cdPc = "start"

CountUnchanged == UNCHANGED <<db, clock, log, settleVars>>

\* The handler of getExpensesWithStatus goes on with its locals.
CountGoesOn(local) == upd' = [upd EXCEPT !.reader = local]

\* Lines 464-475: the expenses, newest first; startedAt is the time of arrival.
CountReadExpenses ==
    /\ upd.reader.pc = "idle"
    /\ CountGoesOn([pc |-> "users", startedAt |-> clock,
                    expenses |-> NewestFirst(db.expenses)])
    /\ UNCHANGED resp
    /\ CountUnchanged

\* The answer when the loop over the expenses is over (line 549), or the next
\* expense (line 492).
CountAdvance(local, entries) ==
    IF local.k = Len(local.expenses)
    THEN /\ CountGoesOn(Idle)
         /\ resp' = [op |-> "getExpensesWithStatus", status |-> 200, body |-> entries,
                     startedAt |-> local.startedAt, answeredAt |-> clock]
    ELSE /\ CountGoesOn([pc |-> "participants", startedAt |-> local.startedAt,
                         expenses |-> local.expenses, userMap |-> local.userMap,
                         k |-> local.k + 1, entries |-> entries])
         /\ UNCHANGED resp

\* Lines 478-488: the users and the map of their names.
CountReadUsers ==
    /\ upd.reader.pc = "users"
    /\ CountAdvance([startedAt |-> upd.reader.startedAt, expenses |-> upd.reader.expenses,
                     userMap |-> db.users, k |-> 0], <<>>)
    /\ CountUnchanged

\* Lines 494-519: the participants of the expense, the count of the payments and
\* the transactions; with no transaction the entry is pushed at once.
CountReadParticipants ==
    /\ upd.reader.pc = "participants"
    /\ LET local == upd.reader
           expense == local.expenses[local.k]
           participants == ParticipantsOf(db, expense.id)
           NotPayer(p) == p.user_id # expense.payer_id
           paymentCount == Len(SelectSeq(participants, NotPayer))
           expenseTransactions == ExpenseTransactions(db, expense)
       IN  IF Len(expenseTransactions) = 0
           THEN CountAdvance(local, Append(local.entries,
                    StatusEntry(expense, local.userMap, participants, paymentCount, 0)))
           ELSE /\ CountGoesOn([pc |-> "lookup", startedAt |-> local.startedAt,
                                expenses |-> local.expenses, userMap |-> local.userMap,
                                k |-> local.k, entries |-> local.entries,
                                participants |-> participants,
                                paymentCount |-> paymentCount,
                                expenseTransactions |-> expenseTransactions,
                                i |-> 1, completedCount |-> 0])
                /\ UNCHANGED resp
    /\ CountUnchanged

\* Lines 521-547: the lookup of one transaction; after the last one the entry of
\* the expense is pushed.
CountLookup ==
    /\ upd.reader.pc = "lookup"
    /\ LET local == upd.reader
           got == MaybeSingle(StatusRows(db.statuses,
                                         TransactionIdOf(local.expenseTransactions[local.i])))
           completedCount == local.completedCount + (IF Completes(got) THEN 1 ELSE 0)
       IN  IF LookupThrows(got.error)
           THEN /\ CountGoesOn(Idle)
                /\ resp' = [op |-> "getExpensesWithStatus", status |-> 500]
           ELSE IF local.i = Len(local.expenseTransactions)
           THEN CountAdvance(local, Append(local.entries,
                    StatusEntry(local.expenses[local.k], local.userMap, local.participants,
                                local.paymentCount, completedCount)))
           ELSE /\ CountGoesOn([local EXCEPT !.i = @ + 1,
                                             !.completedCount = completedCount])
                /\ UNCHANGED resp
    /\ CountUnchanged

\* updatePaymentStatus of another client, lines 400-421 and 432-439: the lookup of
\* the id, at any point of the request, and the time the handler reads after it.
CountUpdateLookup ==
    /\ upd.writer.pc = "idle"
    /\ clock < MaxClock
    /\ \E paymentId \in CountPaymentIds, paid \in BOOLEAN :
          upd' = [upd EXCEPT !.writer =
                     [pc |-> "write", paymentId |-> paymentId, paid |-> paid,
                      now |-> clock,
                      existing |-> ExistingStatus(db.statuses, paymentId).found]]
    /\ UNCHANGED resp
    /\ CountUnchanged

\* updatePaymentStatus of another client, lines 423-446: the update or the insert.
CountUpdateWrite ==
    /\ upd.writer.pc = "write"
    /\ db' = [db EXCEPT !.statuses =
                  WriteStatus(@, upd.writer.existing, upd.writer.paymentId,
                              upd.writer.paid, upd.writer.now, clock).statuses]
    /\ clock' = clock + 1
    /\ upd' = [upd EXCEPT !.writer = Idle]
    /\ UNCHANGED <<resp, log, settleVars>>

NextCount ==
    \/ CountReadExpenses \/ CountReadUsers \/ CountReadParticipants \/ CountLookup
    \/ CountUpdateLookup \/ CountUpdateWrite

SpecCount == InitCount /\ [][NextCount]_vars

----------------------------------------------------------------------------
(* SpecSnap: getSummary (part_001, lines 4-175) one store read at a time,  *)
(* with the store operations of one createExpense, updateExpense or        *)
(* deleteExpense request at a time arriving between its reads.  upd holds  *)
(* the local variables of the two handlers; while a summary request is in  *)
(* flight log is the set of the states the store went through.            *)

SnapBodies ==
    { [name |-> "Lunch", amount |-> 2, payer_id |-> 1, participants |-> <<Share(1), Share(2)>>],
      [name |-> "Taxi", amount |-> 1, payer_id |-> 2, participants |-> <<Share(1)>>] }

\* The numbers of writing requests made so far at which one more may start.
SnapCalls == {0, 1, 2}

InitSnap ==
    /\ db = SeededDb
    /\ clock = 0
    /\ upd = [summary |-> Idle, writer |-> Idle]
    /\ resp = NoResp
    /\ log = {}
    /\ cdUsers = <<>> /\ debtors = <<>> /\ creditors = <<>> /\ transactions = <<>>
    /\ iterations = 0 /\ cdPc = "start"

\* A step of the summary request: the store is only read.
SnapReads(local) ==
    /\ upd' = [upd EXCEPT !.summary = local]
    /\ UNCHANGED <<db, clock, settleVars>>

\* Lines 7-12: the users.
SnapReadUsers ==
    /\ upd.summary.pc = "idle"
    /\ SnapReads([pc |-> "expenses", users |-> db.users])
    /\ log' = {db}
    /\ UNCHANGED resp

\* Lines 15-24: the expenses.
SnapReadExpenses ==
    /\ upd.summary.pc = "expenses"
    /\ SnapReads([pc |-> "participants", users |-> upd.summary.users,
                  expenses |-> db.expenses])
    /\ UNCHANGED <<log, resp>>

\* Lines 27-35: the participants.
SnapReadParticipants ==
    /\ upd.summary.pc = "participants"
    /\ SnapReads([pc |-> "statuses", users |-> upd.summary.users,
                  expenses |-> upd.summary.expenses, participants |-> db.participants])
    /\ UNCHANGED <<log, resp>>

\* Lines 38-175: the payment statuses, and the summary computed from the four
\* results.
SnapReadStatuses ==
    /\ upd.summary.pc = "statuses"
    /\ LET read == [users |-> upd.summary.users, expenses |-> upd.summary.expenses,
                    participants |-> upd.summary.participants, statuses |-> db.statuses,
                    nextUserId |-> db.nextUserId, nextExpenseId |-> db.nextExpenseId]
           answer == GetSummary(read)
       IN  resp' = [op |-> "getSummary", status |-> answer.status,
                    userSummary |-> answer.userSummary,
                    transactions |-> answer.transactions]
    /\ SnapReads(Idle)
    /\ UNCHANGED log

\* A store operation of the writing request: the store becomes d (as it was, for a
\* read) and the state it reaches is one the store went through during a summary
\* request in flight.
SnapWrites(d, local) ==
    /\ db' = d
    /\ upd' = [upd EXCEPT !.writer = local]
    /\ log' = IF upd.summary.pc = "idle" THEN log ELSE log \cup {d}
    /\ UNCHANGED <<resp, settleVars>>

\* createExpense, lines 165-171: the insert of the expense.
SnapCreateExpense ==
    /\ upd.writer.pc = "idle"
    /\ clock \in SnapCalls
    /\ \E body \in SnapBodies :
          SnapWrites(WithExpense(db, body),
                     [pc |-> "createParticipants", id |-> db.nextExpenseId, body |-> body])
    /\ clock' = clock + 1

\* createExpense, lines 174-188: the insert of the participants.
SnapCreateParticipants ==
    /\ upd.writer.pc = "createParticipants"
    /\ SnapWrites([db EXCEPT !.participants =
                       @ \o ParticipantRows(upd.writer.id, upd.writer.body.participants)],
                  [pc |-> "readExpense"])
    /\ UNCHANGED clock

\* createExpense, lines 191-198, and updateExpense, lines 274-281: the expense is
\* read back.
SnapReadBackExpense ==
    /\ upd.writer.pc = "readExpense"
    /\ SnapWrites(db, [pc |-> "readParticipants"])
    /\ UNCHANGED clock

\* createExpense, lines 200-208, and updateExpense, lines 283-291: its participants
\* are read back, and the request is answered.
SnapReadBackParticipants ==
    /\ upd.writer.pc = "readParticipants"
    /\ SnapWrites(db, Idle)
    /\ UNCHANGED clock

\* updateExpense, lines 238-250: the update of the row of a stored expense.
SnapUpdateExpense ==
    /\ upd.writer.pc = "idle"
    /\ clock \in SnapCalls
    /\ \E id \in ExpenseIdsOf(db), body \in SnapBodies :
          SnapWrites([db EXCEPT !.expenses = UpdatedExpenses(db, id, body)],
                     [pc |-> "updateDelete", id |-> id, body |-> body])
    /\ clock' = clock + 1

\* updateExpense, lines 253-258: the delete of the old participants.
SnapUpdateDelete ==
    /\ upd.writer.pc = "updateDelete"
    /\ SnapWrites([db EXCEPT !.participants = WithoutParticipantsOf(db, upd.writer.id)],
                  [upd.writer EXCEPT !.pc = "updateInsert"])
    /\ UNCHANGED clock

\* updateExpense, lines 261-271: the insert of the new participants.
SnapUpdateInsert ==
    /\ upd.writer.pc = "updateInsert"
    /\ SnapWrites([db EXCEPT !.participants =
                       @ \o ParticipantRows(upd.writer.id, upd.writer.body.participants)],
                  [pc |-> "readExpense"])
    /\ UNCHANGED clock

\* deleteExpense, lines 313-324: the check, which finds a stored expense.
SnapDeleteCheck ==
    /\ upd.writer.pc = "idle"
    /\ clock \in SnapCalls
    /\ \E id \in ExpenseIdsOf(db) : SnapWrites(db, [pc |-> "delete", id |-> id])
    /\ clock' = clock + 1

\* deleteExpense, lines 327-334: the delete.
SnapDeleteExpense ==
    /\ upd.writer.pc = "delete"
    /\ SnapWrites(DeleteExpense(db, upd.writer.id).db, Idle)
    /\ UNCHANGED clock

NextSnap ==
    \/ SnapReadUsers \/ SnapReadExpenses \/ SnapReadParticipants \/ SnapReadStatuses
    \/ SnapCreateExpense \/ SnapCreateParticipants
    \/ SnapUpdateExpense \/ SnapUpdateDelete \/ SnapUpdateInsert
    \/ SnapReadBackExpense \/ SnapReadBackParticipants
    \/ SnapDeleteCheck \/ SnapDeleteExpense

SpecSnap == InitSnap /\ [][NextSnap]_vars

----------------------------------------------------------------------------
(* Specification SpecLedger: getSummary (part_001, lines 4-175), one store *)
(* read at a time as in SpecSnap, on every bounded ledger and with no      *)
(* other request served while it runs.                                     *)

\* The numbers of expenses of the ledgers, the amounts of expenses and of shares, in
\* cents, and the users the rows name.
LedgerExpenseCounts == {0, 1, 2}
LedgerAmounts == {10, 30}
LedgerShares == {10, 20}
LedgerPayers == {1, 2}
LedgerParticipants == {NullId, 1, 2}

LedgerExpenses(ex) ==
    [i \in DOMAIN ex |-> [id |-> i, name |-> "Lunch", amount |-> ex[i][1], payer_id |-> ex[i][2]]]
LedgerRows(rows) ==
    [i \in DOMAIN rows |->
        [expense_id |-> rows[i][1], user_id |-> rows[i][2], amount |-> rows[i][3]]]

\* The ledger of an expense of 100000.00 paid by user 1 and split in two shares of
\* 50000.00, of users 1 and 2.
ExampleLedger ==
    [SeededDb EXCEPT
        !.expenses = << [id |-> 1, name |-> "Lunch", amount |-> 10000000, payer_id |-> 1] >>,
        !.participants = << [expense_id |-> 1, user_id |-> 1, amount |-> 5000000],
                            [expense_id |-> 1, user_id |-> 2, amount |-> 5000000] >>,
        !.nextExpenseId = 2]

InitLedger ==
    /\ \/ \E ne \in LedgerExpenseCounts, nr \in 0..MaxLedgerRows :
            \E ex \in [1..ne -> LedgerAmounts \X LedgerPayers] :
              \E rows \in [1..nr -> (1..ne) \X LedgerParticipants \X LedgerShares] :
                db = [SeededDb EXCEPT !.expenses = LedgerExpenses(ex),
                                      !.participants = LedgerRows(rows),
                                      !.nextExpenseId = ne + 1]
       \/ db = ExampleLedger
    /\ clock = 0 /\ upd = [summary |-> Idle, writer |-> Idle] /\ resp = NoResp /\ log = {}
    /\ cdUsers = <<>> /\ debtors = <<>> /\ creditors = <<>> /\ transactions = <<>>
    /\ iterations = 0 /\ cdPc = "start"

\* GET /api/summary, asked once of each ledger: the read of the users.
LedgerReadUsers == resp = NoResp /\ SnapReadUsers

NextLedger ==
    LedgerReadUsers \/ SnapReadExpenses \/ SnapReadParticipants \/ SnapReadStatuses

SpecLedger == InitLedger /\ [][NextLedger]_vars

----------------------------------------------------------------------------
(* Properties of calculateTransactions, checked under SpecSettle.          *)

Abs(n) == IF n < 0 THEN -n ELSE n

RECURSIVE SumOfAmounts(_)
SumOfAmounts(rows) == IF rows = <<>> THEN 0 ELSE Head(rows).amount + SumOfAmounts(Tail(rows))

\* The balance of a user, in cents, after every emitted transaction is applied:
\* the amount is added to the debtor's balance and subtracted from the creditor's.
Residual(user) ==
    LET Outgoing(t) == t.from = user.id
        Incoming(t) == t.to = user.id
    IN  user.balance + SumOfAmounts(SelectSeq(transactions, Outgoing))
                     - SumOfAmounts(SelectSeq(transactions, Incoming))

InputDebtors == { i \in DOMAIN cdUsers : cdUsers[i].balance < 0 }
InputCreditors == { i \in DOMAIN cdUsers : cdUsers[i].balance > 0 }

\* C2: when calculateTransactions has returned, applying the emitted transactions
\* (the amount added to the debtor's balance and subtracted from the creditor's)
\* leaves every user's balance within 0.01 (one cent) of zero.
SettlementCorrectness ==
    cdPc = "done" => \A i \in DOMAIN cdUsers : Abs(Residual(cdUsers[i])) <= 1

\* C8 as stated: the loop runs at most n_debtors + n_creditors - 1 times and emits
\* at most that many transactions.
LoopBoundMinusOne ==
    /\ iterations <= Cardinality(InputDebtors) + Cardinality(InputCreditors) - 1
    /\ Len(transactions) <= Cardinality(InputDebtors) + Cardinality(InputCreditors) - 1

\* C8, amended: every pass through the loop removes the head debtor or the head
\* creditor, and when there is at least one debtor or creditor the loop runs at most
\* n_debtors + n_creditors - 1 times and emits at most that many transactions;
\* with no debtor and no creditor it runs zero times and emits nothing.
LoopBound ==
    LET n == Cardinality(InputDebtors) + Cardinality(InputCreditors)
    IN  /\ cdPc # "start" => Len(debtors) + Len(creditors) <= n - iterations
        /\ iterations <= IF n = 0 THEN 0 ELSE n - 1
        /\ Len(transactions) <= iterations

\* A returned call that ran exactly n_debtors + n_creditors - 1 times and emitted as
\* many transactions, more than once.
LoopBoundWitness ==
    /\ cdPc = "done"
    /\ iterations = Cardinality(InputDebtors) + Cardinality(InputCreditors) - 1
    /\ iterations >= 2
    /\ Len(transactions) = iterations

----------------------------------------------------------------------------
(* Properties of getSummary, checked under SpecLedger.                     *)

RECURSIVE SumOfBalances(_)
SumOfBalances(entries) ==
    IF entries = <<>> THEN 0 ELSE Head(entries).balance + SumOfBalances(Tail(entries))

\* The reference totals of a user, in cents.
AmountPaidBy(userId) ==
    LET PaidByUser(e) == e.payer_id = userId IN SumOfAmounts(SelectSeq(db.expenses, PaidByUser))
SharesOf(userId) ==
    LET Mine(p) == p.user_id = userId IN SumOfAmounts(SelectSeq(db.participants, Mine))

KnownPayer(e) == e.payer_id \in UserIdsOf(db)
KnownParticipant(p) == p.user_id \in UserIdsOf(db)

\* C1 as stated: the balances of the returned aggregates add up to zero, within a
\* rounding tolerance of one cent per aggregate.
BalanceConservation ==
    resp.op = "getSummary" =>
        Abs(SumOfBalances(resp.userSummary)) <= Len(resp.userSummary)

\* C1, amended: the balances of the returned aggregates add up to the amounts of the
\* expenses paid by known users minus the shares of known users.
BalanceSum ==
    resp.op = "getSummary" =>
        SumOfBalances(resp.userSummary) =
            SumOfAmounts(SelectSeq(db.expenses, KnownPayer))
            - SumOfAmounts(SelectSeq(db.participants, KnownParticipant))

\* A summary of a ledger with an expense whose shares of known users do not add up
\* to its amount; the balances do not add up to zero.
BalanceSumWitness ==
    /\ resp.op = "getSummary"
    /\ \E i \in 1..Len(db.expenses) :
          SumOfAmounts(SelectSeq(ParticipantsOf(db, db.expenses[i].id), KnownParticipant))
              # db.expenses[i].amount
    /\ Abs(SumOfBalances(resp.userSummary)) > Len(resp.userSummary)

\* C7: getSummary answers 200 with exactly one aggregate per known user, whose paid
\* is the sum of the amounts of the expenses the user paid, whose spent is the sum
\* of the shares that name the user, and whose balance is paid - spent; rows that
\* name no known user count for nobody.
LedgerAggregation ==
    resp.op = "getSummary" =>
        /\ resp.status = 200
        /\ Len(resp.userSummary) = Cardinality(UserIdsOf(db))
        /\ \A u \in UserIdsOf(db) :
              \E i \in 1..Len(resp.userSummary) :
                 /\ resp.userSummary[i].id = u
                 /\ resp.userSummary[i].paid = AmountPaidBy(u)
                 /\ resp.userSummary[i].spent = SharesOf(u)
                 /\ resp.userSummary[i].balance = AmountPaidBy(u) - SharesOf(u)

\* A summary of a ledger with a share that names no user, a user with no activity,
\* and a user who paid two expenses and has a share.
LedgerAggregationWitness ==
    /\ resp.op = "getSummary"
    /\ \E i \in 1..Len(db.participants) : db.participants[i].user_id = NullId
    /\ \E i \in 1..Len(resp.userSummary) :
          /\ resp.userSummary[i].paid = 0
          /\ resp.userSummary[i].spent = 0
          /\ resp.userSummary[i].balance = 0
    /\ \E i \in 1..Len(resp.userSummary) :
          /\ resp.userSummary[i].paid = 40
          /\ resp.userSummary[i].spent = 20

----------------------------------------------------------------------------
(* Properties of the views and of the status store, checked under Spec.    *)

Stored(transactionId) == Len(StatusRows(db.statuses, transactionId)) > 0

\* Whether every non-payer transaction of an expense has a stored status that is
\* paid, and there is at least one.
GroupCompleted(expense) ==
    LET group == ExpenseTransactions(db, expense)
    IN  /\ Len(group) > 0
        /\ \A i \in 1..Len(group) :
              \E k \in 1..Len(db.statuses) :
                 /\ db.statuses[k].transaction_id = TransactionIdOf(group[i])
                 /\ db.statuses[k].paid

\* C5: for every expense, each of the four views reports the all-completed flag as
\* true exactly when the expense has a non-payer transaction and all of them are
\* stored as paid.
AllCompletedInEveryView ==
    \A k \in 1..Len(db.expenses) :
        LET expense == db.expenses[k]
            byId == GetExpenseById(db, expense.id)
            summary == GetExpenseSummary(db, expense.id)
            withStatus == GetExpensesWithStatus(db)
            listed == GetExpensesTransactions(db)
        IN  /\ byId.status = 200 /\ byId.allCompleted = GroupCompleted(expense)
            /\ summary.status = 200 /\ summary.allCompleted = GroupCompleted(expense)
            /\ withStatus.status = 200
            /\ \A i \in 1..Len(withStatus.body) :
                  withStatus.body[i].id = expense.id =>
                      withStatus.body[i].all_payments_completed = GroupCompleted(expense)
            /\ listed.status = 200
            /\ \A i \in 1..Len(listed.body) :
                  listed.body[i].expenseId = expense.id =>
                      listed.body[i].allCompleted = GroupCompleted(expense)

IsDefault(status) == status.paid = FALSE /\ status.paid_at = NullTime

\* C6: the three views answer without error, and every transaction they report
\* whose id has no stored row carries the status paid = false, paid_at = null.
DefaultStatusReported ==
    /\ LET summary == GetSummary(db)
       IN  /\ summary.status = 200
           /\ \A i \in 1..Len(summary.transactions) :
                 LET t == summary.transactions[i]
                 IN  ~Stored("overall-" \o ToString(t.from) \o "-" \o ToString(t.to))
                        => IsDefault(t.payment_status)
    /\ \A k \in 1..Len(db.expenses) :
          LET summary == GetExpenseSummary(db, db.expenses[k].id)
          IN  /\ summary.status = 200
              /\ \A i \in 1..Len(summary.transactions) :
                    ~Stored(summary.transactions[i].id)
                        => IsDefault(summary.transactions[i].payment_status)
    /\ LET listed == GetExpensesTransactions(db)
       IN  /\ listed.status = 200
           /\ \A k \in 1..Len(listed.body) :
                 \A i \in 1..Len(listed.body[k].transactions) :
                    ~Stored(listed.body[k].transactions[i].id)
                        => IsDefault(listed.body[k].transactions[i].payment_status)

\* The summary has just been answered; the store holds a status row, the summary
\* plans a transaction whose overall id is not stored and the listing reports a
\* per-expense transaction whose id is not stored.
DefaultStatusWitness ==
    /\ resp.op = "getSummary"
    /\ Len(db.statuses) > 0
    /\ \E i \in 1..Len(GetSummary(db).transactions) :
          LET t == GetSummary(db).transactions[i]
          IN  ~Stored("overall-" \o ToString(t.from) \o "-" \o ToString(t.to))
    /\ \E k \in 1..Len(GetExpensesTransactions(db).body) :
          \E i \in 1..Len(GetExpensesTransactions(db).body[k].transactions) :
             ~Stored(GetExpensesTransactions(db).body[k].transactions[i].id)

\* C9: a step that changes the payment status rows is the write of an
\* updatePaymentStatus request; every other step of every request, however the
\* requests interleave, leaves them as they are.
StatusesChangedOnlyByUpdate ==
    [][db'.statuses # db.statuses
          => /\ \E c \in Clients : upd[c].pc = "UpdatePaymentStatusWrite" /\ upd'[c].pc = "idle"
             /\ resp'.op = "updatePaymentStatus"
             /\ resp'.step = "UpdatePaymentStatusWrite"]_vars

\* Expense 1 has been deleted and the status row stored for its transaction from
\* user 2 to user 1 is still there.
StatusSurvivesWitness ==
    /\ resp.op = "deleteExpense" /\ resp.status = 200
    /\ ~HasExpense(db, 1)
    /\ Stored("1-2-1")

\* The two namespaces of identifiers.
OverallIdTexts ==
    { "overall-" \o ToString(f) \o "-" \o ToString(t) : f \in RequestUsers, t \in RequestUsers }
PerExpenseIdTexts ==
    { ToString(e) \o "-" \o ToString(f) \o "-" \o ToString(t) :
        e \in ExpenseTargets, f \in RequestUsers, t \in RequestUsers }

RowsChanged(ids) ==
    \E id \in ids : StatusRows(db'.statuses, id) # StatusRows(db.statuses, id)

\* C10: a status write on a per-expense id leaves the transactions of getSummary,
\* payment_status included, as they were; a status write on an overall id leaves
\* every per-expense view as it was.
SeparateNamespaces ==
    [][/\ RowsChanged(PerExpenseIdTexts) =>
             GetSummary(db').transactions = GetSummary(db).transactions
       /\ RowsChanged(OverallIdTexts) =>
             /\ GetExpensesTransactions(db') = GetExpensesTransactions(db)
             /\ GetExpensesWithStatus(db') = GetExpensesWithStatus(db)
             /\ \A id \in ExpenseTargets :
                   /\ GetExpenseSummary(db', id) = GetExpenseSummary(db, id)
                   /\ GetExpenseById(db', id) = GetExpenseById(db, id)]_vars

\* Expense 1 has the transaction from user 2 to user 1, stored as unpaid, and the
\* summary plans a transaction from user 2 to user 1, stored as paid.
SeparateNamespacesWitness ==
    /\ resp.op = "updatePaymentStatus" /\ resp.status = 200
    /\ \E k \in 1..Len(db.statuses) :
          db.statuses[k].transaction_id = "1-2-1" /\ ~db.statuses[k].paid
    /\ \E k \in 1..Len(db.statuses) :
          db.statuses[k].transaction_id = "overall-2-1" /\ db.statuses[k].paid
    /\ HasExpense(db, 1)
    /\ \E i \in 1..Len(GetExpenseSummary(db, 1).transactions) :
          /\ GetExpenseSummary(db, 1).transactions[i].id = "1-2-1"
          /\ ~GetExpenseSummary(db, 1).transactions[i].payment_status.paid
    /\ \E i \in 1..Len(GetSummary(db).transactions) :
          /\ GetSummary(db).transactions[i].from = 2
          /\ GetSummary(db).transactions[i].to = 1
          /\ GetSummary(db).transactions[i].payment_status.paid

----------------------------------------------------------------------------
(* Properties of updatePaymentStatus, checked under SpecSeq and SpecRace.  *)

\* Whether a log entry is a call for the id that carried the value paid.
IsCall(entry, paymentId, paid) ==
    "paid" \in DOMAIN entry /\ entry.paymentId = paymentId /\ entry.paid = paid

\* The calls of the log that wrote or tried to write the rows of one id.
WritesOn(paymentId) ==
    LET OnId(entry) == "paid" \in DOMAIN entry /\ entry.paymentId = paymentId
    IN  SelectSeq(log, OnId)

\* C3: with two clients calling updatePaymentStatus, every call that carries paid is
\* answered 200, and once no call on an id is in flight the row of the id holds the
\* value of the call on that id that wrote last.
LastWriteWins ==
    /\ \A i \in 1..Len(log) : "paid" \in DOMAIN log[i] => log[i].status = 200
    /\ \A paymentId \in PaymentIds :
          LET calls == WritesOn(paymentId)
          IN  (Len(calls) > 0 /\ \A c \in InFlight : upd[c].paymentId # paymentId) =>
                  /\ Len(StatusRows(db.statuses, paymentId)) = 1
                  /\ StatusRows(db.statuses, paymentId)[1].paid = calls[Len(calls)].paid

\* C4: when the last two calls of the client were updatePaymentStatus(id, true),
\* both were answered 200 and the store holds exactly one row for id, with paid =
\* true; when they were followed by updatePaymentStatus(id, false), that call was
\* answered 200 and the one row has paid = false and paid_at = null.
StatusUpdateIdempotent ==
    \A paymentId \in PaymentIds :
        LET n == Len(log)
            rows == StatusRows(db.statuses, paymentId)
        IN  /\ (n >= 2 /\ IsCall(log[n - 1], paymentId, TRUE) /\ IsCall(log[n], paymentId, TRUE)) =>
                  /\ log[n - 1].status = 200 /\ log[n].status = 200
                  /\ Len(rows) = 1
                  /\ rows[1].paid = TRUE
            /\ (/\ n >= 3
                /\ IsCall(log[n - 2], paymentId, TRUE)
                /\ IsCall(log[n - 1], paymentId, TRUE)
                /\ IsCall(log[n], paymentId, FALSE)) =>
                  /\ log[n].status = 200
                  /\ Len(rows) = 1
                  /\ rows[1].paid = FALSE
                  /\ rows[1].paid_at = NullTime

\* The client has called updatePaymentStatus(id, true) twice and then
\* updatePaymentStatus(id, false) on an id that had no row at the start.
StatusUpdateIdempotentWitness ==
    /\ Len(log) = 3
    /\ IsCall(log[1], "1-2-1", TRUE) /\ IsCall(log[2], "1-2-1", TRUE)
    /\ IsCall(log[3], "1-2-1", FALSE)
    /\ StatusRows(db.statuses, "1-2-1")[1].created_at = 1
    /\ StatusRows(db.statuses, "1-2-1")[1].updated_at = VietnamTime(3)

----------------------------------------------------------------------------
(* Properties of the per-expense summary, checked under Spec.              *)

\* The participant rows of an expense that name somebody else than its payer.
OwingRows(expense) ==
    LET Owes(p) == p.expense_id = expense.id /\ p.user_id # expense.payer_id
    IN  SelectSeq(db.participants, Owes)

\* C11: for every expense, getExpenseSummary answers one transaction per participant
\* row whose user_id is not the payer, in the order of the rows, from that
\* participant to the payer, with the amount of the row and the id
\* "{expense_id}-{from_user_id}-{to_user_id}"; the payer's own row gives none.
RawObligations ==
    \A k \in 1..Len(db.expenses) :
        LET expense == db.expenses[k]
            answer == GetExpenseSummary(db, expense.id)
            rows == OwingRows(expense)
        IN  /\ answer.status = 200
            /\ Len(answer.transactions) = Len(rows)
            /\ \A i \in 1..Len(rows) :
                  /\ answer.transactions[i].fromUserId = rows[i].user_id
                  /\ answer.transactions[i].toUserId = expense.payer_id
                  /\ answer.transactions[i].amount = rows[i].amount
                  /\ answer.transactions[i].id =
                        ToString(expense.id) \o "-" \o ToString(rows[i].user_id)
                            \o "-" \o ToString(expense.payer_id)

\* getExpenseSummary has just answered, and the store holds an expense with a row
\* of its payer and a row of somebody else: one transaction, of one share.
RawObligationsWitness ==
    /\ resp.op = "getExpenseSummary" /\ resp.status = 200
    /\ \E k \in 1..Len(db.expenses) :
          LET expense == db.expenses[k]
              answer == GetExpenseSummary(db, expense.id)
          IN  /\ Len(ParticipantsOf(db, expense.id)) = 2
              /\ Len(answer.transactions) = 1
              /\ answer.transactions[1].amount = 1

----------------------------------------------------------------------------
(* Properties of the summaries when a read of the store fails (SpecFault). *)

SummaryOps ==
    {"getSummary", "getExpenseSummary", "getExpensesWithStatus", "getExpensesTransactions"}

\* C12: a summary request a read of which failed (users, expenses, participants
\* or a single payment-status lookup, at any point of the request) answers a
\* failure, never a success built from what was read before.
NoPartialSummaries ==
    (resp.op \in SummaryOps /\ resp.failed) => resp.status = 500

\* The status lookup of a share of getExpensesWithStatus failed, after the reads of
\* the expenses, the users and the participants succeeded, and the answer is a
\* failure.
NoPartialSummariesWitness ==
    /\ resp.op = "getExpensesWithStatus"
    /\ resp.step = "GetExpensesWithStatusLookup"
    /\ resp.failed
    /\ resp.status = 500

----------------------------------------------------------------------------
(* Properties of the requests addressed to one expense or one user         *)
(* (SpecFault).                                                            *)

ExpenseOps == {"getExpenseSummary", "getExpenseById", "updateExpense", "deleteExpense"}
UserOps == {"getUserById", "updateUser", "deleteUser"}

\* Whether the record the answered request was addressed to was missing from the
\* store d the request ran on.
TargetMissing(answer, d) ==
    \/ answer.op \in ExpenseOps /\ \A k \in 1..Len(d.expenses) : d.expenses[k].id # answer.id
    \/ answer.op \in UserOps /\ answer.id \notin DOMAIN d.users

\* C13: a request addressed to an expense id or a user id that does not exist when
\* the request arrives answers, at its first operation on the store, 404 and not
\* 500, and a request whose first operation on the store fails answers 500 and not
\* 404 (a request refused by the validation of its body reaches neither case).
NotFoundDistinctFromFailure ==
    [][ (log' # log /\ upd' = upd /\ resp'.op \in ExpenseOps \cup UserOps
                    /\ resp'.status # 400)
        => /\ (~resp'.failed /\ TargetMissing(resp', db)) => resp'.status = 404
           /\ resp'.failed => resp'.status = 500 ]_vars

----------------------------------------------------------------------------
(* Properties of the validation of request bodies (Spec).                  *)

\* C14: on every reachable store, updatePaymentStatus without a paid field,
\* createExpense and updateExpense with a body missing its name, amount, payer_id
\* or participants, and createUser and updateUser without a name (missing or
\* empty) answer 400 and hand back the store with every table unchanged.
ValidationWritesNothing ==
    LET Refused(result) == result.status = 400 /\ result.db = db
    IN  /\ \A body \in InvalidBodies :
              /\ Refused(CreateExpense(db, body))
              /\ \A id \in ExpenseTargets : Refused(UpdateExpense(db, id, body))
        /\ \A name \in {Absent, ""} :
              /\ Refused(CreateUser(db, name))
              /\ \A id \in UserTargets : Refused(UpdateUser(db, id, name))
        /\ \A paymentId \in PaymentIds, body \in StatusBodies :
              "paid" \notin DOMAIN body => Refused(UpdatePaymentStatus(db, paymentId, body, clock))

\* updateExpense has answered 400 on a store that holds an expense, its shares and
\* a payment status.
ValidationWritesNothingWitness ==
    /\ resp.op = "updateExpense"
    /\ resp.status = 400
    /\ Len(db.expenses) = 1
    /\ Len(db.participants) = 2
    /\ Len(db.statuses) >= 1

----------------------------------------------------------------------------
(* Properties of the users an expense refers to (Spec).                    *)

\* The places an updateUser or deleteUser request is resumed at.
UserWriteSteps ==
    {"DeleteUserExpenses", "DeleteUserParticipants", "DeleteUserDelete"}

\* C15: a user that is referenced by an expense, as its payer or by a share, is
\* immutable: no step of updateUser or deleteUser changes or removes the record
\* of a user that is referenced in the store the step acts on.
ReferencedUserImmutable ==
    [][ (\E c \in Clients :
            /\ upd'[c].pc = "idle"
            /\ upd[c].pc \in UserWriteSteps \/ (upd[c].pc = "idle" /\ log' # log)
            /\ resp'.op \in {"updateUser", "deleteUser"})
        => \A u \in UserIdsOf(db) :
               Referenced(db, u) => u \in UserIdsOf(db') /\ db'.users[u] = db.users[u] ]_vars

----------------------------------------------------------------------------
(* Properties of the stored payment statuses (Spec).                       *)

\* C16: every stored payment status has paid_at = null exactly when paid is false,
\* whether the row was written by the insert or by the update of
\* updatePaymentStatus, and whatever was written by another request between the
\* lookup of the request and its write.
PaidAtIffPaid ==
    \A i \in 1..Len(db.statuses) :
        (db.statuses[i].paid_at = NullTime) <=> (db.statuses[i].paid = FALSE)

\* updatePaymentStatus has answered 200 three times: twice for one id, the second
\* time through the update with paid = false, which left the row without paid_at;
\* and once for another id with paid = true, by a request that read its time before
\* the write of another request and inserted its row after it, so that the row
\* carries a paid_at of the hour before its created_at.
PaidAtIffPaidWitness ==
    /\ resp.op = "updatePaymentStatus"
    /\ resp.status = 200
    /\ clock = 3
    /\ \E i \in 1..Len(db.statuses) :
          /\ db.statuses[i].updated_at = VietnamTime(2)
          /\ db.statuses[i].created_at = 0
          /\ db.statuses[i].paid = FALSE
          /\ db.statuses[i].paid_at = NullTime
    /\ \E i \in 1..Len(db.statuses) :
          /\ db.statuses[i].created_at = 1
          /\ db.statuses[i].paid = TRUE
          /\ db.statuses[i].paid_at = VietnamTime(0)

----------------------------------------------------------------------------
(* Properties of the order of calculateTransactions (SpecSettle).          *)

Least(a, b) == IF a <= b THEN a ELSE b
IdsOf(list) == [p \in 1..Len(list) |-> list[p].id]

\* The order the claim fixes, on the input balances in cents: the more negative
\* debtor first, the more positive creditor first, equal balances by ascending id.
DebtorPrecedes(i, j) ==
    \/ cdUsers[i].balance < cdUsers[j].balance
    \/ cdUsers[i].balance = cdUsers[j].balance /\ i < j
CreditorPrecedes(i, j) ==
    \/ cdUsers[i].balance > cdUsers[j].balance
    \/ cdUsers[i].balance = cdUsers[j].balance /\ i < j

\* The two lists hold their users in the fixed order, all of them before the first
\* pass through the loop.
ListsInFixedOrder ==
    cdPc # "start" =>
        /\ \A p, q \in 1..Len(debtors) :
              p < q => DebtorPrecedes(debtors[p].id, debtors[q].id)
        /\ \A p, q \in 1..Len(creditors) :
              p < q => CreditorPrecedes(creditors[p].id, creditors[q].id)
        /\ iterations = 0 =>
              /\ { debtors[p].id : p \in 1..Len(debtors) } = InputDebtors
              /\ { creditors[p].id : p \in 1..Len(creditors) } = InputCreditors

\* A pass through the loop appends one transaction, from the head debtor to the head
\* creditor, of the smaller of what the two still have open, and takes users away
\* from the front of the lists only.
PairsTheHeads ==
    iterations' = iterations + 1 =>
        LET d == debtors[1].id
            c == creditors[1].id
            amount == Least(-Residual(cdUsers[d]), Residual(cdUsers[c]))
        IN  /\ amount > 0
            /\ transactions' = Append(transactions,
                   [from |-> d, to |-> c, amount |-> amount, relatedExpenses |-> <<>>])
            /\ IdsOf(debtors') \in {IdsOf(debtors), IdsOf(Tail(debtors))}
            /\ IdsOf(creditors') \in {IdsOf(creditors), IdsOf(Tail(creditors))}

\* The example of the claim: balances +0.30, +0.10 and -0.40.
ExampleTransactions ==
    << [from |-> 3, to |-> 1, amount |-> 30, relatedExpenses |-> <<>>],
       [from |-> 3, to |-> 2, amount |-> 10, relatedExpenses |-> <<>>] >>

\* C17: the order of the transactions is fixed by the initial sort: the debtors are
\* taken most negative first and the creditors most positive first, equal balances
\* in ascending id order, every transaction pairs the two heads with the smaller of
\* their remaining amounts, and balances +30, +10, -40 give 30 to the first creditor
\* and then 10 to the second.
GreedyOrder ==
    /\ []ListsInFixedOrder
    /\ [][PairsTheHeads]_vars
    /\ []((cdPc = "done" /\ cdUsers = UserList(ExampleBalances))
            => transactions = ExampleTransactions)

\* The call on the example has returned its two transactions.
GreedyOrderWitness ==
    /\ cdPc = "done"
    /\ cdUsers = UserList(ExampleBalances)
    /\ iterations = 2
    /\ transactions = ExampleTransactions

----------------------------------------------------------------------------
(* Properties of the transactions of calculateTransactions (SpecSettle).   *)

\* C18: every emitted transaction has a positive amount, comes from a user whose
\* input balance is negative and goes to a user whose input balance is positive
\* (so never to the same user); with no negative balance or no positive balance,
\* in particular when all balances are zero, no transaction is emitted.
TransactionsWellFormed ==
    /\ \A k \in 1..Len(transactions) :
          /\ transactions[k].amount > 0
          /\ transactions[k].from \in InputDebtors
          /\ transactions[k].to \in InputCreditors
          /\ transactions[k].from # transactions[k].to
    /\ (InputDebtors = {} \/ InputCreditors = {}) => transactions = <<>>

\* A returned call with several transactions among users one of whom has balance
\* zero and takes no part.
TransactionsWellFormedWitness ==
    /\ cdPc = "done"
    /\ Len(transactions) >= 2
    /\ \E i \in DOMAIN cdUsers :
          /\ cdUsers[i].balance = 0
          /\ \A k \in 1..Len(transactions) :
                transactions[k].from # i /\ transactions[k].to # i

----------------------------------------------------------------------------
(* Properties of the counts of getExpensesWithStatus (SpecCount).          *)

\* The shares of the expense that are owed to its payer and whose id
\* "{expense_id}-{user_id}-{payer_id}" has a stored record with paid = true.
PaidOwingRows(expense) ==
    LET owing == OwingRows(expense)
    IN  { i \in 1..Len(owing) :
            \E r \in 1..Len(db.statuses) :
                /\ db.statuses[r].transaction_id =
                       ExpenseTransactionId(expense.id, owing[i].user_id, expense.payer_id)
                /\ db.statuses[r].paid }

\* C19: in every answer of getExpensesWithStatus, payment_count is the number of
\* participant rows of the expense whose user is not the payer, and
\* 0 <= completed_count <= payment_count <= participants_count, also when status
\* updates arrived between the lookups; when none arrived during the request,
\* completed_count is the number of those rows whose id is stored as paid.
CountsOfAnswer ==
    [][ (upd.reader.pc # "idle" /\ upd'.reader.pc = "idle" /\ resp'.status = 200)
        => /\ Len(resp'.body) = Len(db.expenses)
           /\ \A n \in 1..Len(resp'.body) :
                 LET entry == resp'.body[n]
                     expense == ExpenseById(db, entry.id)
                 IN  /\ entry.payment_count = Len(OwingRows(expense))
                     /\ entry.participants_count = Len(ParticipantsOf(db, expense.id))
                     /\ 0 <= entry.completed_count
                     /\ entry.completed_count <= entry.payment_count
                     /\ entry.payment_count <= entry.participants_count
                     /\ resp'.startedAt = clock
                            => entry.completed_count = Cardinality(PaidOwingRows(expense)) ]_vars

\* An answer during whose lookups status updates arrived, with an expense of two
\* payments both counted as completed and an expense with none completed.
CountsOfAnswerWitness ==
    /\ upd.reader.pc = "idle"
    /\ resp.op = "getExpensesWithStatus"
    /\ resp.status = 200
    /\ resp.startedAt < resp.answeredAt
    /\ \E n \in 1..Len(resp.body) :
          resp.body[n].payment_count = 2 /\ resp.body[n].completed_count = 2
    /\ \E n \in 1..Len(resp.body) :
          resp.body[n].payment_count = 1 /\ resp.body[n].completed_count = 0

----------------------------------------------------------------------------
(* Properties of the stored expenses when store operations fail            *)
(* (SpecFault).                                                            *)

\* The places a createExpense, updateExpense or deleteExpense request is resumed at.
ExpenseWriteSteps ==
    {"CreateExpenseParticipants", "CreateExpenseUndo", "CreateExpenseReadExpense",
     "CreateExpenseReadParticipants", "UpdateExpenseDelete", "UpdateExpenseInsert",
     "UpdateExpenseReadExpense", "UpdateExpenseReadParticipants", "DeleteExpenseDelete"}

\* C20: whenever no expense request is in flight, every stored expense has at
\* least one participant row, after any sequence of createExpense, updateExpense
\* and deleteExpense calls any store operation of which may fail.
EveryExpenseHasParticipants ==
    (\A c \in Clients : upd[c].pc \notin ExpenseWriteSteps)
        => \A k \in 1..Len(db.expenses) : Len(ParticipantsOf(db, db.expenses[k].id)) >= 1

----------------------------------------------------------------------------
(* Properties of received and pending in getSummary (Spec).                *)

\* The participant rows of other users in the expenses paid by the user, and
\* whether the per-expense id of such a row is stored as paid.
OwedTo(userId) ==
    LET Owed(p) == \E k \in 1..Len(db.expenses) :
                       /\ db.expenses[k].id = p.expense_id
                       /\ db.expenses[k].payer_id = userId
                       /\ p.user_id # userId
    IN  SelectSeq(db.participants, Owed)
StoredPaid(p, payerId) ==
    \E r \in 1..Len(db.statuses) :
        /\ db.statuses[r].transaction_id =
               ExpenseTransactionId(p.expense_id, p.user_id, payerId)
        /\ db.statuses[r].paid

\* C21: for every known user, getSummary reports as received the amounts of the
\* rows owed to the user whose per-expense id is stored as paid and as pending the
\* amounts of the other rows owed to the user, so that received + pending is the sum
\* of all rows owed to the user, several rows of one user in one expense included.
ReceivedAndPendingCoverShares ==
    LET summary == UserSummary(db)
    IN  \A i \in 1..Len(summary) :
            LET u == summary[i].id
                Paid(p) == StoredPaid(p, u)
                Unpaid(p) == ~StoredPaid(p, u)
            IN  /\ summary[i].received = SumOfAmounts(SelectSeq(OwedTo(u), Paid))
                /\ summary[i].pending = SumOfAmounts(SelectSeq(OwedTo(u), Unpaid))
                /\ summary[i].received + summary[i].pending = SumOfAmounts(OwedTo(u))

----------------------------------------------------------------------------
(* Properties of getSummary among writing requests (SpecSnap).             *)

\* C22: the userSummary a getSummary request answers is the ledger of one state the
\* store was in during the request, also when store operations of createExpense,
\* updateExpense or deleteExpense arrive between its reads.
SummaryOfOneState ==
    [][ (upd.summary.pc = "statuses" /\ upd'.summary.pc = "idle")
        => \E d \in log : resp'.userSummary = UserSummary(d) ]_vars

============================================================================
